---- MODULE Spec2Model ----
(***************************************************************************)
(* Model of the template/state editor of built-studio                      *)
(* (src/components/EditorInterface.tsx) and of its live preview            *)
(* (src/components/Preview.tsx).                                           *)
(*                                                                         *)
(* Strings that the code inspects (placeholder keys, State values) are     *)
(* sequences of one-character strings, so that `includes`, the default     *)
(* value `[key]` and the `_<digits>` suffix are computed, not assumed.     *)
(* The Template is the DOM the code obtains from DOMParser: a BODY element *)
(* with element and text nodes; a text node or an attribute value is a     *)
(* sequence of tokens, a token being literal text or one placeholder       *)
(* occurrence in one of its spellings.  `head` holds what the parser moves *)
(* to <head> (leading <style id="site-font"> blocks): body.innerHTML       *)
(* does not contain it.                                                    *)
(*                                                                         *)
(* Inputs explored: well-formed Templates whose placeholders are in the    *)
(* body; keys that are not integer-like (Object.keys keeps their insertion *)
(* order) and use one letter case.  A change of html and the re-run of the *)
(* effects that depend on it are one step.                                 *)
(***************************************************************************)
EXTENDS Integers, Sequences, FiniteSets, TLC

VARIABLES
    html,           \* useState(initialHtml)                 (line 30)
    state,          \* useState(initialState), insertion-ordered (line 31)
    history,        \* useState([initialHtml])               (line 36)
    historyIndex,   \* useState(0)                           (line 37)
    toast,          \* useState(null)                        (line 383)
    toastTimers,    \* pending setTimeout(() => setToast(null), 3000): their
                    \* number; equal delays, so the oldest fires first
    focusKey,       \* useState(null)                        (line 390)
    fieldGroups,    \* useState([])                          (line 488)
    repeatableKeys, \* useState(new Set())                   (line 489)
    reconTimers,    \* pending 800ms timers, each with the html it captured
    groupTimers,    \* pending 300ms timers, each with the html it captured
    srcDoc,         \* Preview: useState(""), the content constructDoc wraps
    frameLoaded,    \* the script of the iframe has run: its listener exists
    frameApp,       \* innerHTML of the #app container of the iframe
    toFrame,        \* messages posted to iframe.contentWindow, in order
    toHost,         \* messages posted to window.parent, in order
    isSaving,       \* useState(false)                       (line 32)
    lastSaved,      \* useState(null): has a save completed  (line 33)
    saving,         \* setDoc calls awaited, each with the record it writes
    saveTimers,     \* pending setTimeout(() => setIsSaving(false), 800)
    jsonInput,      \* ChatGPTHandshake: useState("")        (line 1097)
    error,          \* ChatGPTHandshake: useState(null)      (line 1096)
    completed,      \* the calls of onComplete, in order
    last            \* the handler that ran last, with the values it saw

vars == <<html, state, history, historyIndex, toast, toastTimers, focusKey,
          fieldGroups, repeatableKeys, reconTimers, groupTimers, srcDoc,
          frameLoaded, frameApp, toFrame, toHost, isSaving, lastSaved, saving,
          saveTimers, jsonInput, error, completed, last>>

\* the state of a save in progress, and of the blueprint page
saveVars == <<isSaving, lastSaved, saving, saveTimers>>
handshakeVars == <<jsonInput, error, completed>>

----------------------------------------------------------------------------
(* Bounds of the model *)

\* Math.random() * 10000 is drawn from 0..MaxSuffix
MaxSuffix == 1
\* number of Template changes explored (length of the history log)
MaxHistory == 2
\* number of pending toast expiry timers explored
MaxToastTimers == 2
\* number of UPDATE_HTML messages in flight to the iframe
MaxInFlight == 2
\* number of calls of onComplete explored
MaxCompleted == 2
\* number of saves in progress explored: setDoc calls awaited and pending
\* 800ms timers
MaxSaving == 2

(* Program constants *)
HISTORY_LIMIT == 100

----------------------------------------------------------------------------
(* Strings *)

RECURSIVE Chars(_)
\* a TLA+ tuple of one-character strings stands for a JavaScript string
Includes(s, sub) ==
    \E i \in 0..(Len(s) - Len(sub)) : SubSeq(s, i + 1, i + Len(sub)) = sub

DigitChars == <<"0", "1", "2", "3", "4", "5", "6", "7", "8", "9">>
IsDigit(c) == \E i \in 1..10 : DigitChars[i] = c

\* String(n) for a non-negative integer
Chars(n) ==
    IF n < 10 THEN <<DigitChars[n + 1]>>
    ELSE Chars(n \div 10) \o <<DigitChars[(n % 10) + 1]>>

\* `[${key}]`
DefaultValue(key) == <<"[">> \o key \o <<"]">>

\* the value of a property that the object does not have
Undefined == <<"undefined">>

----------------------------------------------------------------------------
(* State: a JavaScript object, i.e. an insertion-ordered key -> value map,  *)
(* as a sequence of [k, v] records without repeated keys.                  *)

ObjKeys(obj) == [i \in 1..Len(obj) |-> obj[i].k]
KeySet(obj) == {obj[i].k : i \in 1..Len(obj)}
Has(obj, key) == key \in KeySet(obj)
Get(obj, key) ==
    IF Has(obj, key)
    THEN obj[CHOOSE i \in 1..Len(obj) : obj[i].k = key].v
    ELSE Undefined
\* obj[key] = value: in place when the key exists, appended otherwise
Put(obj, key, value) ==
    IF Has(obj, key)
    THEN [i \in 1..Len(obj) |->
            IF obj[i].k = key THEN [k |-> key, v |-> value] ELSE obj[i]]
    ELSE Append(obj, [k |-> key, v |-> value])
\* delete obj[key]
Del(obj, key) == SelectSeq(obj, LAMBDA e : e.k # key)

SeqToSet(s) == {s[i] : i \in 1..Len(s)}

----------------------------------------------------------------------------
(* Template: tokens, nodes, paths *)

\* the spellings of a placeholder occurrence:
\*   "plain"  {{key}}      "spaced"  {{ key }}      "enc"  %7B%7Bkey%7D%7D
\* and "lit" for text that contains no placeholder
Tok(sp, key) == [sp |-> sp, k |-> key]
Lit(text) == [sp |-> "lit", k |-> text]

\* /(?:{{|%7B%7B)\s*([a-zA-Z0-9_-]+)\s*(?:}}|%7D%7D)/g
ScanSpellings == {"plain", "spaced", "enc"}
\* String.includes(`{{${k}}}`) on the text of a text node
TextIncludesSpellings == {"plain"}
\* val.includes(`{{${k}}}`) || val.includes(`%7B%7B${k}%7D%7D`)
AttrIncludesSpellings == {"plain", "enc"}
\* new RegExp(`{{\\s*${key}\\s*}}`, 'g')
BraceRegexSpellings == {"plain", "spaced"}
\* new RegExp(`%7B%7B\\s*${key}\\s*%7D%7D`, 'gi')
EncRegexSpellings == {"enc"}
\* contains(.,'{{key}}') | contains(.,'{{ key }}')
XPathSpellings == {"plain", "spaced"}

TextNode(toks) ==
    [t |-> "text", tag |-> "#text", attrs |-> <<>>, kids |-> <<>>, text |-> toks]
Elem(tag, attrs, kids) ==
    [t |-> "elem", tag |-> tag, attrs |-> attrs, kids |-> kids, text |-> <<>>]
Attr(name, toks) == [name |-> name, value |-> toks]
\* DOMParser.parseFromString(html, "text/html").body
Body(kids) == Elem("BODY", <<>>, kids)
\* a Template: what the parser puts in <head>, and the body
Template(head, kids) == [head |-> head, body |-> Body(kids)]
\* doc.body.innerHTML, as the Template it is when parsed again
BodyInnerHTML(body) == [head |-> <<>>, body |-> body]

RECURSIVE NodeAt(_, _), WalkKids(_, _, _), ReplaceAt(_, _, _), ConcatAll(_)

\* the node at a path of child indices below root
NodeAt(root, path) ==
    IF path = <<>> THEN root
    ELSE NodeAt(root.kids[Head(path)], Tail(path))

ParentPath(path) == SubSeq(path, 1, Len(path) - 1)
LastIndex(path) == path[Len(path)]

\* TreeWalker(SHOW_ELEMENT | SHOW_TEXT).nextNode(): the descendants of the
\* node at `path`, from its i-th child on, in document order
WalkKids(node, path, i) ==
    IF i > Len(node.kids) THEN <<>>
    ELSE <<Append(path, i)>>
         \o WalkKids(node.kids[i], Append(path, i), 1)
         \o WalkKids(node, path, i + 1)
Walk(root) == WalkKids(root, <<>>, 1)

\* root with the node at path replaced by the sequence of nodes `repl`
ReplaceAt(root, path, repl) ==
    IF Len(path) = 1
    THEN [root EXCEPT !.kids =
            SubSeq(root.kids, 1, path[1] - 1) \o repl
            \o SubSeq(root.kids, path[1] + 1, Len(root.kids))]
    ELSE [root EXCEPT !.kids[path[1]] =
            ReplaceAt(root.kids[path[1]], Tail(path), repl)]

ConcatAll(seqs) ==
    IF seqs = <<>> THEN <<>> ELSE Head(seqs) \o ConcatAll(Tail(seqs))

\* the tokens a node carries itself: its text, or its attribute values
OwnTokens(node) ==
    IF node.t = "text" THEN node.text
    ELSE ConcatAll([i \in 1..Len(node.attrs) |-> node.attrs[i].value])

KeysOfTokens(toks, spellings) ==
    LET hits == SelectSeq(toks, LAMBDA tk : tk.sp \in spellings)
    IN  [i \in 1..Len(hits) |-> hits[i].k]

\* element.innerHTML, as the sequence of its tokens
InnerTokens(root, path) ==
    LET node == NodeAt(root, path)
        below == WalkKids(node, path, 1)
    IN  ConcatAll([i \in 1..Len(below) |-> OwnTokens(NodeAt(root, below[i]))])

RECURSIVE Uniq(_)
\* Array.from(new Set(seq)): first occurrences, in order
Uniq(seq) ==
    IF seq = <<>> THEN <<>>
    ELSE LET rest == Uniq(SubSeq(seq, 1, Len(seq) - 1))
             x == seq[Len(seq)]
         IN  IF x \in SeqToSet(rest) THEN rest ELSE Append(rest, x)

\* while ((match = regex.exec(html)) !== null) foundKeys.add(match[1])
FoundKeys(tpl) == Uniq(KeysOfTokens(InnerTokens(tpl.body, <<>>), ScanSpellings))

----------------------------------------------------------------------------
(* State Reconciler: the body of the 800ms timer (lines 129-192) *)

\* newState[oldKey] !== `[${oldKey}]`
IsCustom(obj, oldKey) == Get(obj, oldKey) # DefaultValue(oldKey)

\* FindSource without the "only one removed" clause
FindSource_SubstringOnly(newState, removedKeys, newKey) ==
    LET ok == SelectSeq(removedKeys, LAMBDA oldKey :
                  /\ IsCustom(newState, oldKey)
                  /\ \/ Includes(newKey, oldKey)
                     \/ Includes(oldKey, newKey))
    IN  IF ok = <<>> THEN <<>> ELSE <<Head(ok)>>

\* FindSource that takes any customized removed key
FindSource_AnyCustom(newState, removedKeys, newKey) ==
    LET ok == SelectSeq(removedKeys, LAMBDA oldKey : IsCustom(newState, oldKey))
    IN  IF ok = <<>> THEN <<>> ELSE <<Head(ok)>>

\* removedKeys.find(oldKey => isCustom && (newKey.includes(oldKey) ||
\*     oldKey.includes(newKey) || removedKeys.length === 1)),
\* as <<sourceKey>>, or <<>> when find returns undefined
FindSource(newState, removedKeys, newKey) ==
    LET ok == SelectSeq(removedKeys, LAMBDA oldKey :
                  /\ IsCustom(newState, oldKey)
                  /\ \/ Includes(newKey, oldKey)
                     \/ Includes(oldKey, newKey)
                     \/ Len(removedKeys) = 1)
    IN  IF ok = <<>> THEN <<>> ELSE <<Head(ok)>>

\* SpliceRemoved without the splice
SpliceRemoved_Keep(removedKeys, sourceKey) == removedKeys

\* removedKeys.splice(removedKeys.indexOf(sourceKey), 1)
SpliceRemoved(removedKeys, sourceKey) ==
    SelectSeq(removedKeys, LAMBDA k : k # sourceKey)

RECURSIVE Migrate(_, _), AddDefaults(_, _)

\* step 1, addedKeys.forEach(newKey => ...): acc is the loop's state
\* [st: newState, removed: removedKeys, moves: the <<newKey, sourceKey>> done]
Migrate(acc, addedKeys) ==
    IF addedKeys = <<>> THEN acc
    ELSE LET newKey == Head(addedKeys)
             src == FindSource(acc.st, acc.removed, newKey)
         IN  IF src = <<>> THEN Migrate(acc, Tail(addedKeys))
             ELSE Migrate(
                    [st |-> Del(Put(acc.st, newKey, Get(acc.st, src[1])), src[1]),
                     removed |-> SpliceRemoved(acc.removed, src[1]),
                     moves |-> Append(acc.moves, <<newKey, src[1]>>)],
                    Tail(addedKeys))

\* AddDefaults without the loop
AddDefaults_Skip(newState, foundKeys) == newState

\* AddDefaults that stops after the first key it adds
AddDefaults_FirstOnly(newState, foundKeys) ==
    LET missing == SelectSeq(foundKeys, LAMBDA key : ~Has(newState, key))
    IN  IF missing = <<>> THEN newState
        ELSE Put(newState, missing[1], DefaultValue(missing[1]))

\* step 2, foundKeys.forEach(key => if (!newState.hasOwnProperty(key)) ...)
AddDefaults(newState, foundKeys) ==
    IF foundKeys = <<>> THEN newState
    ELSE LET key == Head(foundKeys)
         IN  AddDefaults(IF Has(newState, key) THEN newState
                         ELSE Put(newState, key, DefaultValue(key)),
                         Tail(foundKeys))

\* PruneStale without the deletion
PruneStale_KeepAll(newState, foundKeys) == newState

\* PruneStale without the isDefaultValue test
PruneStale_DropAll(newState, foundKeys) ==
    SelectSeq(newState, LAMBDA e : e.k \in SeqToSet(foundKeys))

\* step 3, Object.keys(newState).forEach(key => delete when stale and default)
PruneStale(newState, foundKeys) ==
    SelectSeq(newState, LAMBDA e :
        ~(e.k \notin SeqToSet(foundKeys) /\ e.v = DefaultValue(e.k)))

\* the whole pass, given the keys found in the scanned Template and the
\* State prevState
ReconcileWith(foundKeys, prevState) ==
    LET currentKeys == ObjKeys(prevState)
        addedKeys == SelectSeq(foundKeys, LAMBDA k : k \notin SeqToSet(currentKeys))
        removedKeys == SelectSeq(currentKeys, LAMBDA k : k \notin SeqToSet(foundKeys))
        start == [st |-> prevState, removed |-> removedKeys, moves |-> <<>>]
        mig == IF Len(addedKeys) > 0 /\ Len(removedKeys) > 0
               THEN Migrate(start, addedKeys) ELSE start
        filled == AddDefaults(mig.st, foundKeys)
        pruned == PruneStale(filled, foundKeys)
        hasChanges == mig.moves # <<>> \/ filled # mig.st \/ pruned # filled
    IN  [state |-> IF hasChanges THEN pruned ELSE prevState,
         found |-> foundKeys, added |-> addedKeys, removed |-> removedKeys,
         moves |-> mig.moves]

\* the pass with the keys scanned in tpl
ReconcilePass(tpl, prevState) == ReconcileWith(FoundKeys(tpl), prevState)

----------------------------------------------------------------------------
(* Group Inference (lines 392-420, 491-571) *)

StopTags == {"BODY", "MAIN", "SECTION"}

\* parent.children, as their indices under the element at path
ElementChildren(root, path) ==
    LET node == NodeAt(root, path)
    IN  {i \in 1..Len(node.kids) : node.kids[i].t = "elem"}

RECURSIVE RepeatableFrom(_, _)
\* the while loop of getRepeatableParent, started at the element `current`;
\* <<path of the anchor>>, or <<>> for null.  The BODY element (path <<>>)
\* has a parentElement and a stop tag.
RepeatableFrom(root, current) ==
    LET el == NodeAt(root, current)
    IN  IF el.tag \in StopTags THEN <<>>
        ELSE LET parent == ParentPath(current)
                 siblings == {i \in ElementChildren(root, parent) :
                                /\ i # LastIndex(current)
                                /\ NodeAt(root, Append(parent, i)).tag = el.tag}
             IN  IF el.tag \in {"LI", "TR"} THEN <<current>>
                 ELSE IF el.tag \in {"DIV", "ARTICLE", "SECTION"} /\ siblings # {}
                      THEN <<current>>
                      ELSE RepeatableFrom(root, parent)

\* the walk started at the node itself
getRepeatableParent_FromNode(root, nodePath) == RepeatableFrom(root, nodePath)

\* getRepeatableParent(node) for the node at nodePath (never the body itself)
getRepeatableParent(root, nodePath) == RepeatableFrom(root, ParentPath(nodePath))

\* does findElementWithKey return the node at path for key k
NodeHasKey(root, path, k) ==
    LET node == NodeAt(root, path)
    IN  IF node.t = "text"
        THEN k \in SeqToSet(KeysOfTokens(node.text, TextIncludesSpellings))
        ELSE \E i \in 1..Len(node.attrs) :
                k \in SeqToSet(KeysOfTokens(node.attrs[i].value, AttrIncludesSpellings))

\* findElementWithKey(k): <<path of the first node>>, or <<>> for null
findElementWithKey(root, k) ==
    LET hits == SelectSeq(Walk(root), LAMBDA p : NodeHasKey(root, p, k))
    IN  IF hits = <<>> THEN <<>> ELSE <<Head(hits)>>

\* finalOrderedKeys: one [key, node, parent] per regex match, in walker order
FinalOrderedKeys(root) ==
    LET walk == Walk(root)
        ItemsOf(p) ==
            LET keys == KeysOfTokens(OwnTokens(NodeAt(root, p)), ScanSpellings)
            IN  [i \in 1..Len(keys) |->
                    [key |-> keys[i], node |-> p, parent |-> getRepeatableParent(root, p)]]
    IN  ConcatAll([i \in 1..Len(walk) |-> ItemsOf(walk[i])])

\* the loop that gives every occurrence a group of its own
GroupLoop_PerItem(acc, items, all) ==
    [groups |-> [i \in 1..Len(items) |-> <<items[i].key>>],
     processedKeys |-> {items[i].key : i \in 1..Len(items)},
     processedParents |-> {}]

RECURSIVE GroupLoop(_, _, _)
\* for (const item of finalOrderedKeys) { ... }: acc is
\* [groups, processedKeys, processedParents]
GroupLoop(acc, items, all) ==
    IF items = <<>> THEN acc
    ELSE LET item == Head(items)
             rest == Tail(items)
         IN  IF item.key \in acc.processedKeys THEN GroupLoop(acc, rest, all)
             ELSE IF item.parent # <<>>
             THEN IF item.parent \in acc.processedParents
                  THEN GroupLoop(acc, rest, all)
                  ELSE LET sibs == SelectSeq(all, LAMBDA x : x.parent = item.parent)
                           group == Uniq(SelectSeq([i \in 1..Len(sibs) |-> sibs[i].key],
                                        LAMBDA k : k \notin acc.processedKeys))
                       IN  GroupLoop(
                             [groups |-> Append(acc.groups, group),
                              processedKeys |-> acc.processedKeys \cup SeqToSet(group),
                              processedParents |-> acc.processedParents \cup {item.parent}],
                             rest, all)
             ELSE GroupLoop(
                    [groups |-> Append(acc.groups, <<item.key>>),
                     processedKeys |-> acc.processedKeys \cup {item.key},
                     processedParents |-> acc.processedParents],
                    rest, all)

\* scanGroups over the Template tpl: the values given to setFieldGroups and
\* setRepeatableKeys
scanGroups(tpl) ==
    LET items == FinalOrderedKeys(tpl.body)
        res == GroupLoop([groups |-> <<>>, processedKeys |-> {},
                          processedParents |-> {}], items, items)
    IN  [fieldGroups |-> res.groups,
         repeatableKeys |-> {items[i].key : i \in {j \in 1..Len(items) : items[j].parent # <<>>}}]

----------------------------------------------------------------------------
(* Serialization and token rewriting *)

RECURSIVE MergeText(_), Normalize(_), MapTokens(_, _)

\* a sequence of child nodes as the parser yields it from their
\* serialization: no empty text node, no two adjacent text nodes
MergeText(kids) ==
    IF kids = <<>> THEN <<>>
    ELSE LET x == Head(kids)
             rest == MergeText(Tail(kids))
         IN  IF x.t = "text" /\ x.text = <<>> THEN rest
             ELSE IF x.t = "text" /\ rest # <<>> /\ Head(rest).t = "text"
                  THEN <<TextNode(x.text \o Head(rest).text)>> \o Tail(rest)
                  ELSE <<x>> \o rest

Normalize(node) ==
    IF node.t = "text" THEN node
    ELSE [node EXCEPT !.kids =
            MergeText([i \in 1..Len(node.kids) |-> Normalize(node.kids[i])])]

\* doc.body.innerHTML after the DOM was changed, as a Template
Serialize(body) == BodyInnerHTML(Normalize(body))

\* prevHtml.replace(new RegExp(`{{\\s*${key}\\s*}}`, 'g'), '')
RemoveBraceTokens(toks, key) ==
    SelectSeq(toks, LAMBDA tk : ~(tk.sp \in BraceRegexSpellings /\ tk.k = key))

\* .replace(keyRegex, `{{${newKey}}}`).replace(encKeyRegex, `{{${newKey}}}`)
RenameTokens(toks, oldKey, newKey) ==
    LET brace == [i \in 1..Len(toks) |->
                    IF toks[i].sp \in BraceRegexSpellings /\ toks[i].k = oldKey
                    THEN Tok("plain", newKey) ELSE toks[i]]
    IN  [i \in 1..Len(brace) |->
            IF brace[i].sp \in EncRegexSpellings /\ brace[i].k = oldKey
            THEN Tok("plain", newKey) ELSE brace[i]]

\* a String.replace call, as data: [op, old, new]
ReplaceTokens(toks, r) ==
    IF r.op = "remove" THEN RemoveBraceTokens(toks, r.old)
    ELSE RenameTokens(toks, r.old, r.new)

\* the String.replace call r applied to the serialization of a subtree
MapTokens(node, r) ==
    IF node.t = "text" THEN [node EXCEPT !.text = ReplaceTokens(node.text, r)]
    ELSE [node EXCEPT
            !.attrs = [i \in 1..Len(node.attrs) |->
                         [node.attrs[i] EXCEPT
                            !.value = ReplaceTokens(node.attrs[i].value, r)]],
            !.kids = [i \in 1..Len(node.kids) |-> MapTokens(node.kids[i], r)]]

\* element.innerHTML = element.innerHTML.replace(...): the element's own
\* attributes are not part of innerHTML
MapInnerTokens(node, r) ==
    [node EXCEPT !.kids = [i \in 1..Len(node.kids) |-> MapTokens(node.kids[i], r)]]

----------------------------------------------------------------------------
(* Duplicate (lines 573-668) *)

\* oldKey.replace(/_\d+$/, "")
BaseName(oldKey) ==
    LET cuts == {j \in 1..(Len(oldKey) - 1) :
                    /\ oldKey[j] = "_"
                    /\ \A i \in (j + 1)..Len(oldKey) : IsDigit(oldKey[i])}
    IN  IF cuts = {} THEN oldKey
        ELSE SubSeq(oldKey, 1, (CHOOSE j \in cuts : TRUE) - 1)

\* `${baseName}_${randomSuffix}`
FreshKey(oldKey, randomSuffix) == BaseName(oldKey) \o <<"_">> \o Chars(randomSuffix)

\* newKeysMap after the scan of deepHtml: rnd[i] is the value of
\* Math.floor(Math.random() * 10000) drawn for the i-th distinct key
NewKeysMap(deepKeys, rnd) ==
    [i \in 1..Len(deepKeys) |-> [k |-> deepKeys[i], v |-> FreshKey(deepKeys[i], rnd[i])]]

RECURSIVE RenameAll(_, _), BlankAll(_, _)
\* Object.keys(newKeysMap).forEach(oldKey => newInnerHtml = ...) on the clone
RenameAll(clone, map) ==
    IF map = <<>> THEN clone
    ELSE RenameAll(MapInnerTokens(clone,
                      [op |-> "rename", old |-> Head(map).k, new |-> Head(map).v]),
                   Tail(map))

\* Object.keys(newKeysMap).forEach(oldKey => nextState[newKey] = "")
BlankAll(nextState, map) ==
    IF map = <<>> THEN nextState
    ELSE BlankAll(Put(nextState, Head(map).v, <<>>), Tail(map))

\* the outcome of handleDuplicateVariable on (tpl, st): which toast, and
\* the values passed to setState, setHtml and setFocusKey
DuplicateResult(tpl, st, keyToDuplicate, rnd) ==
    LET body == tpl.body
        node == findElementWithKey(body, keyToDuplicate)
        targetElement == IF node = <<>> THEN <<>> ELSE getRepeatableParent(body, node[1])
    IN  IF node = <<>>
        THEN [outcome |-> "notfound", html |-> tpl, state |-> st, map |-> <<>>,
              anchor |-> <<>>]
        ELSE IF targetElement = <<>>
        THEN [outcome |-> "noanchor", html |-> tpl, state |-> st, map |-> <<>>,
              anchor |-> <<>>]
        ELSE LET target == targetElement[1]
                 deepKeys == Uniq(KeysOfTokens(InnerTokens(body, target), ScanSpellings))
                 map == NewKeysMap(deepKeys, rnd)
                 clone == RenameAll(NodeAt(body, target), map)
                 newBody == ReplaceAt(body, target, <<NodeAt(body, target), clone>>)
             IN  [outcome |-> "duplicated", html |-> Serialize(newBody),
                  state |-> BlankAll(st, map), map |-> map, anchor |-> target]

\* the number of distinct keys the scan of deepHtml finds for this call
DeepKeyCount(tpl, keyToDuplicate) ==
    LET node == findElementWithKey(tpl.body, keyToDuplicate)
        targetElement == IF node = <<>> THEN <<>>
                         ELSE getRepeatableParent(tpl.body, node[1])
    IN  IF targetElement = <<>> THEN 0
        ELSE Len(Uniq(KeysOfTokens(InnerTokens(tpl.body, targetElement[1]), ScanSpellings)))

----------------------------------------------------------------------------
(* Delete (lines 670-715) *)

\* does the element at path have a text child with '{{key}}' or '{{ key }}'
XPathMatches(root, path, key) ==
    LET el == NodeAt(root, path)
    IN  /\ el.t = "elem"
        /\ \E i \in 1..Len(el.kids) :
              /\ el.kids[i].t = "text"
              /\ key \in SeqToSet(KeysOfTokens(el.kids[i].text, XPathSpellings))

\* doc.evaluate(xpath, ..., FIRST_ORDERED_NODE_TYPE).singleNodeValue:
\* <<path>> of the first element in document order (the body included)
XPathFirst(root, key) ==
    LET hits == SelectSeq(<<(<<>>)>> \o Walk(root), LAMBDA p : XPathMatches(root, p, key))
    IN  IF hits = <<>> THEN <<>> ELSE <<Head(hits)>>

\* the fallback: prevHtml.replace(regex, '') on the Template string
RemoveTokenFallback(tpl, key) ==
    [tpl EXCEPT !.body =
        Normalize(MapTokens(tpl.body, [op |-> "remove", old |-> key, new |-> <<>>]))]

\* the Template that handleDeleteVariable passes to setHtml
DeleteHtml(tpl, key) ==
    LET node == XPathFirst(tpl.body, key)
    IN  IF node = <<>> THEN RemoveTokenFallback(tpl, key)
        \* removing the body makes doc.body null: doc.body.innerHTML throws
        \* and the catch block runs the fallback
        ELSE IF node[1] = <<>> THEN RemoveTokenFallback(tpl, key)
        ELSE Serialize(ReplaceAt(tpl.body, node[1], <<>>))

----------------------------------------------------------------------------
(* Swap (lines 422-486) *)

\* MoveAnchor that always inserts before parentB
MoveAnchor_AlwaysBefore(kids, a, b) ==
    LET without == SubSeq(kids, 1, a - 1) \o SubSeq(kids, a + 1, Len(kids))
        bNow == IF a < b THEN b - 1 ELSE b
    IN  IF a = b THEN kids
        ELSE SubSeq(without, 1, bNow - 1) \o <<kids[a]>>
             \o SubSeq(without, bNow, Len(without))

\* the child nodes of parent after the insertBefore call (lines 468-472):
\* a and b are the positions of parentA and parentB among the child nodes.
\* insertBefore first takes parentA out of the list; inserting a node before
\* itself leaves the list as it is.
MoveAnchor(kids, a, b) ==
    LET without == SubSeq(kids, 1, a - 1) \o SubSeq(kids, a + 1, Len(kids))
    IN  IF a < b
        \* parent.insertBefore(parentA, parentB.nextSibling): parentB is at
        \* b - 1 in `without`, parentA goes right after it
        THEN SubSeq(without, 1, b - 1) \o <<kids[a]>>
             \o SubSeq(without, b, Len(without))
        ELSE IF a = b THEN kids
        \* parent.insertBefore(parentA, parentB): parentB is still at b
        ELSE SubSeq(without, 1, b - 1) \o <<kids[a]>>
             \o SubSeq(without, b, Len(without))

\* the body with the children of the element at path replaced by kids
RECURSIVE WithKids(_, _, _)
WithKids(root, path, kids) ==
    IF path = <<>> THEN [root EXCEPT !.kids = kids]
    ELSE [root EXCEPT !.kids[Head(path)] =
            WithKids(root.kids[Head(path)], Tail(path), kids)]

\* the outcome of handleSwapVariables(keyA, keyB), keyA # keyB, on tpl:
\* which branch ran, and the value passed to setHtml.  An anchor is never
\* the body, so parent is not null and both indices are found.
SwapResult(tpl, keyA, keyB) ==
    LET body == tpl.body
        nodeA == findElementWithKey(body, keyA)
        nodeB == findElementWithKey(body, keyB)
        parentA == IF nodeA = <<>> THEN <<>> ELSE getRepeatableParent(body, nodeA[1])
        parentB == IF nodeB = <<>> THEN <<>> ELSE getRepeatableParent(body, nodeB[1])
        none == [html |-> tpl, parent |-> <<>>, a |-> 0, b |-> 0]
    IN  IF nodeA = <<>> \/ nodeB = <<>>
        THEN [outcome |-> "notfound"] @@ none
        ELSE IF parentA = <<>> \/ parentB = <<>>
        THEN [outcome |-> "noanchor"] @@ none
        ELSE IF ParentPath(parentA[1]) # ParentPath(parentB[1])
        THEN [outcome |-> "crosslist"] @@ none
        ELSE LET parent == ParentPath(parentA[1])
                 a == LastIndex(parentA[1])
                 b == LastIndex(parentB[1])
                 kids == MoveAnchor(NodeAt(body, parent).kids, a, b)
             IN  [outcome |-> "moved",
                  html |-> Serialize(WithKids(body, parent, kids)),
                  parent |-> parent, a |-> a, b |-> b]

----------------------------------------------------------------------------
(* Preview: the substitution pass (Preview.tsx lines 27-48) and the message  *)
(* listener of the iframe (lines 96-128).  Markup is a sequence of items:   *)
(* one item per character of text or of an attribute value, and one item   *)
(* per piece of tag syntax, so that the regular expression of the pass is  *)
(* matched character by character and the listener can parse what it gets. *)

Ch(c) == [c |-> c, tag |-> "", path |-> <<>>]
Mark(kind, tag, path) == [c |-> kind, tag |-> tag, path |-> path]
Items(chars) == [i \in 1..Len(chars) |-> Ch(chars[i])]
CharsOf(items) == [i \in 1..Len(items) |-> items[i].c]

\* a token as it is written in the markup
RenderToken(tk) ==
    Items(IF tk.sp = "plain" THEN <<"{", "{">> \o tk.k \o <<"}", "}">>
          ELSE IF tk.sp = "spaced"
          THEN <<"{", "{", " ">> \o tk.k \o <<" ", "}", "}">>
          ELSE IF tk.sp = "enc"
          THEN <<"%", "7", "B", "%", "7", "B">> \o tk.k
               \o <<"%", "7", "D", "%", "7", "D">>
          ELSE tk.k)

RenderTokens(toks) == ConcatAll([i \in 1..Len(toks) |-> RenderToken(toks[i])])

RECURSIVE OuterHTML(_, _)
\* the serialization of a node after addPaths (lines 32-39): dataPath is the
\* value of its data-path attribute as zero-based indices into `children`,
\* <<>> for an element that gets none
OuterHTML(node, dataPath) ==
    IF node.t = "text" THEN RenderTokens(node.text)
    ELSE LET ChildIndex(i) == Cardinality({j \in 1..(i - 1) : node.kids[j].t = "elem"})
             ChildPath(i) == IF dataPath = <<>> THEN <<>>
                             ELSE Append(dataPath, ChildIndex(i))
         IN  <<Mark("<tag", node.tag, dataPath)>>
             \o ConcatAll([i \in 1..Len(node.attrs) |->
                    <<Mark("attr=", node.attrs[i].name, <<>>)>>
                    \o RenderTokens(node.attrs[i].value)
                    \o <<Mark("attr.", node.attrs[i].name, <<>>)>>])
             \o <<Mark("tag>", node.tag, <<>>)>>
             \o ConcatAll([i \in 1..Len(node.kids) |->
                    OuterHTML(node.kids[i], ChildPath(i))])
             \o <<Mark("</tag>", node.tag, <<>>)>>

\* (doc.head.innerHTML || '') + doc.body.innerHTML after addPaths
PathedHTML(tpl) ==
    LET body == tpl.body
        TopIndex(i) == Cardinality({j \in 1..(i - 1) : body.kids[j].t = "elem"})
    IN  ConcatAll([i \in 1..Len(tpl.head) |-> OuterHTML(tpl.head[i], <<>>)])
        \o ConcatAll([i \in 1..Len(body.kids) |->
               OuterHTML(body.kids[i], <<TopIndex(i)>>)])

\* the least position of a set of positions that is not empty
First(positions) == CHOOSE k \in positions : \A n \in positions : k <= n

\* \s
WhiteSpace == {" ", "\t", "\n"}

RECURSIVE SkipSpace(_, _), ReplaceAll(_, _, _, _), Hydrate(_, _), CloseOf(_, _, _)

\* the first position from j on that holds no white space
SkipSpace(s, j) ==
    IF j <= Len(s) /\ s[j].c \in WhiteSpace THEN SkipSpace(s, j + 1) ELSE j

\* new RegExp(`{{\\s*${key}\\s*}}`) matched at position i of s: the position
\* after the match, or 0.  Keys hold no character that is special in a
\* regular expression.
MatchEnd(s, i, key) ==
    IF i + 1 <= Len(s) /\ s[i].c = "{" /\ s[i + 1].c = "{"
    THEN LET j == SkipSpace(s, i + 2)
             k == j + Len(key)
         IN  IF /\ k - 1 <= Len(s)
                /\ [n \in 1..Len(key) |-> s[j + n - 1].c] = key
             THEN LET m == SkipSpace(s, k)
                  IN  IF m + 1 <= Len(s) /\ s[m].c = "}" /\ s[m + 1].c = "}"
                      THEN m + 2 ELSE 0
             ELSE 0
    ELSE 0

\* s.replace(regex, () => value) with the g flag, from position i on: the
\* matches are found left to right and the inserted value is not scanned
ReplaceAll(s, i, key, value) ==
    LET hits == {k \in i..Len(s) : MatchEnd(s, k, key) # 0}
    IN  IF hits = {} THEN SubSeq(s, i, Len(s))
        ELSE SubSeq(s, i, First(hits) - 1) \o value
             \o ReplaceAll(s, MatchEnd(s, First(hits), key), key, value)

\* Object.entries(currentState).forEach(([key, value]) => hydrated =
\* hydrated.replace(regex, () => String(value ?? ""))): State values are
\* strings, for which String(value) is the value
Hydrate(hydrated, entries) ==
    IF entries = <<>> THEN hydrated
    ELSE Hydrate(ReplaceAll(hydrated, 1, Head(entries).k, Items(Head(entries).v)),
                 Tail(entries))

\* getProcessedHtml(rawHtml, currentState) (lines 27-48)
getProcessedHtml(rawHtml, currentState) == Hydrate(PathedHTML(rawHtml), currentState)

\* the position of the end tag that closes the element whose content
\* starts at j, depth being the number of elements opened since
CloseOf(s, j, depth) ==
    IF s[j].c = "<tag" THEN CloseOf(s, j + 1, depth + 1)
    ELSE IF s[j].c = "</tag>"
         THEN IF depth = 0 THEN j ELSE CloseOf(s, j + 1, depth - 1)
         ELSE CloseOf(s, j + 1, depth)

\* the positions of the start tags in s that carry id="<id>"
StartTagsWithId(s, id) ==
    {i \in 1..Len(s) :
        /\ s[i].c = "<tag"
        /\ \E a \in (i + 1)..Len(s), z \in (i + 1)..Len(s) :
              /\ a < z
              /\ s[a].c = "attr=" /\ s[a].tag = "id"
              /\ s[z].c = "attr."
              /\ \A m \in i..z : s[m].c # "tag>"
              /\ \A m \in (a + 1)..(z - 1) : s[m].c # "attr."
              /\ CharsOf(SubSeq(s, a + 1, z - 1)) = id}

\* parseFromString(s, 'text/html').getElementById(id).innerHTML as
\* <<innerHTML>>, or <<>> when there is no such element.  Values that
\* bring markup of their own into s are not explored.
InnerHTMLById(s, id) ==
    LET hits == StartTagsWithId(s, id)
    IN  IF hits = {} THEN <<>>
        ELSE LET i == CHOOSE x \in hits : \A y \in hits : x <= y
                 e == CHOOSE x \in i..Len(s) :
                        s[x].c = "tag>" /\ \A y \in i..(x - 1) : s[y].c # "tag>"
             IN  <<SubSeq(s, e + 1, CloseOf(s, e + 1, 0) - 1)>>

AppId == <<"a", "p", "p">>

\* step 1 of the UPDATE_HTML branch of the listener (lines 99-111): the
\* innerHTML of the #app container afterwards.  The explored Templates have
\* no <style id="site-font">, so step 2 finds none on either side.
SyncApp(app, dataHtml) ==
    LET newApp == InnerHTMLById(dataHtml, AppId)
    IN  IF newApp # <<>>
        THEN IF app # newApp[1] THEN newApp[1] ELSE app
        ELSE dataHtml

----------------------------------------------------------------------------
(* The scanner of the reconciler and of Group Inference, character by      *)
(* character (lines 131-137, 500-532)                                      *)

\* [a-zA-Z0-9_-]
KeyChars ==
    {"a", "b", "c", "d", "e", "f", "g", "h", "i", "j", "k", "l", "m", "n", "o", "p", "q", "r", "s", "t", "u", "v", "w", "x", "y", "z"}
    \cup {"A", "B", "C", "D", "E", "F", "G", "H", "I", "J", "K", "L", "M", "N", "O", "P", "Q", "R", "S", "T", "U", "V", "W", "X", "Y", "Z"}
    \cup {"0", "1", "2", "3", "4", "5", "6", "7", "8", "9"}
    \cup {"_", "-"}

\* the markup of a Template as the editor holds it: the html string
RawHTML(tpl) ==
    ConcatAll([i \in 1..Len(tpl.head) |-> OuterHTML(tpl.head[i], <<>>)])
    \o ConcatAll([i \in 1..Len(tpl.body.kids) |-> OuterHTML(tpl.body.kids[i], <<>>)])

\* does s hold the characters of word from position i on
HoldsAt(s, i, word) ==
    /\ i + Len(word) - 1 <= Len(s)
    /\ \A n \in 1..Len(word) : s[i + n - 1].c = word[n]

RECURSIVE KeyRunEnd(_, _), regexKeys(_, _)
\* [a-zA-Z0-9_-]+ from position j on: the position after the run
KeyRunEnd(s, j) ==
    IF j <= Len(s) /\ s[j].c \in KeyChars THEN KeyRunEnd(s, j + 1) ELSE j

\* the scanner without the URL-encoded braces
regexExec_BracesOnly(s, i) ==
    LET AfterWord(j, word) == IF HoldsAt(s, j, word) THEN j + Len(word) ELSE 0
        open == AfterWord(i, <<"{", "{">>)
        j == SkipSpace(s, open)
        e == KeyRunEnd(s, j)
        close == AfterWord(SkipSpace(s, e), <<"}", "}">>)
    IN  IF open # 0 /\ e > j /\ close # 0
        THEN [end |-> close, key |-> [n \in 1..(e - j) |-> s[j + n - 1].c]]
        ELSE [end |-> 0, key |-> <<>>]

\* /(?:{{|%7B%7B)\s*([a-zA-Z0-9_-]+)\s*(?:}}|%7D%7D)/ matched at position i
\* of s: the position after the match and match[1], or end = 0.  No
\* character of \s, of the key class or of a closing brace belongs to two of
\* them, so the greedy match is the only one.
regexExec(s, i) ==
    LET AfterEither(j, a, b) == IF HoldsAt(s, j, a) THEN j + Len(a)
                                ELSE IF HoldsAt(s, j, b) THEN j + Len(b)
                                ELSE 0
        open == AfterEither(i, <<"{", "{">>, <<"%", "7", "B", "%", "7", "B">>)
        j == SkipSpace(s, open)
        e == KeyRunEnd(s, j)
        close == AfterEither(SkipSpace(s, e), <<"}", "}">>,
                             <<"%", "7", "D", "%", "7", "D">>)
    IN  IF open # 0 /\ e > j /\ close # 0
        THEN [end |-> close, key |-> [n \in 1..(e - j) |-> s[j + n - 1].c]]
        ELSE [end |-> 0, key |-> <<>>]

\* while ((match = regex.exec(s)) !== null): match[1] of every match from
\* position i on, left to right
regexKeys(s, i) ==
    LET hits == {k \in i..Len(s) : regexExec(s, k).end # 0}
    IN  IF hits = {} THEN <<>>
        ELSE <<regexExec(s, First(hits)).key>>
             \o regexKeys(s, regexExec(s, First(hits)).end)

\* foundKeys of the reconciler: the scan of the html string
ScanHtml(tpl) == Uniq(regexKeys(RawHTML(tpl), 1))

\* the keys of finalOrderedKeys: the scan of the textContent of every text
\* node and of every attribute value, in walker order
ScanNodes(tpl) ==
    LET walk == Walk(tpl.body)
        KeysOf(node) ==
            IF node.t = "text" THEN regexKeys(RenderTokens(node.text), 1)
            ELSE ConcatAll([a \in 1..Len(node.attrs) |->
                    regexKeys(RenderTokens(node.attrs[a].value), 1)])
    IN  ConcatAll([i \in 1..Len(walk) |-> KeysOf(NodeAt(tpl.body, walk[i]))])

----------------------------------------------------------------------------
(* Blueprint ingestion: ChatGPTHandshake.handleInject (lines 1143-1183).    *)
(* A JSON value is [t, s, items]: t is its type, s the characters of a    *)
(* string, items the elements of an array or the [k, v] members of an      *)
(* object.  Number literals are not explored.                              *)

JNull == [t |-> "null", s |-> <<>>, items |-> <<>>]
JBool(b) == [t |-> b, s |-> <<>>, items |-> <<>>]
JString(chars) == [t |-> "string", s |-> chars, items |-> <<>>]
JArray(elements) == [t |-> "array", s |-> <<>>, items |-> elements]
JObject(members) == [t |-> "object", s |-> <<>>, items |-> members]
Member(key, value) == [k |-> key, v |-> value]
\* the value of a property that is not there
JUndefined == [t |-> "undefined", s |-> <<>>, items |-> <<>>]

JsonSpace == {" ", "\n", "\t", "\r"}

RECURSIVE SkipWs(_, _), StringBody(_, _, _), ParseValue(_, _),
          ParseElements(_, _, _), ParseMembers(_, _, _)

\* the outcome of a parsing step: the value and the position after it
Parsed(value, next) == [ok |-> TRUE, val |-> value, next |-> next]
\* JSON.parse throws a SyntaxError
SyntaxError == [ok |-> FALSE, val |-> JUndefined, next |-> 0]

SkipWs(s, i) ==
    IF i <= Len(s) /\ s[i] \in JsonSpace THEN SkipWs(s, i + 1) ELSE i

\* does s hold the characters of word from position i on
StartsAt(s, i, word) ==
    /\ i + Len(word) - 1 <= Len(s)
    /\ SubSeq(s, i, i + Len(word) - 1) = word

\* a string literal after its opening quote: acc holds the characters read
StringBody(s, i, acc) ==
    IF i > Len(s) THEN SyntaxError
    ELSE IF s[i] = "\"" THEN Parsed(JString(acc), i + 1)
    ELSE IF s[i] = "\\"
    THEN IF i + 1 > Len(s) THEN SyntaxError
         ELSE IF s[i + 1] \in {"\"", "\\", "/"}
         THEN StringBody(s, i + 2, Append(acc, s[i + 1]))
         ELSE IF s[i + 1] = "n" THEN StringBody(s, i + 2, Append(acc, "\n"))
         ELSE IF s[i + 1] = "t" THEN StringBody(s, i + 2, Append(acc, "\t"))
         ELSE SyntaxError
    \* a control character is not allowed inside a string literal
    ELSE IF s[i] \in {"\n", "\t", "\r"} THEN SyntaxError
    ELSE StringBody(s, i + 1, Append(acc, s[i]))

ParseValue(s, i0) ==
    LET i == SkipWs(s, i0)
    IN  IF i > Len(s) THEN SyntaxError
        ELSE IF s[i] = "\"" THEN StringBody(s, i + 1, <<>>)
        ELSE IF s[i] = "["
        THEN LET j == SkipWs(s, i + 1)
             IN  IF j <= Len(s) /\ s[j] = "]" THEN Parsed(JArray(<<>>), j + 1)
                 ELSE ParseElements(s, i + 1, <<>>)
        ELSE IF s[i] = "{"
        THEN LET j == SkipWs(s, i + 1)
             IN  IF j <= Len(s) /\ s[j] = "}" THEN Parsed(JObject(<<>>), j + 1)
                 ELSE ParseMembers(s, i + 1, <<>>)
        ELSE IF StartsAt(s, i, <<"n", "u", "l", "l">>) THEN Parsed(JNull, i + 4)
        ELSE IF StartsAt(s, i, <<"t", "r", "u", "e">>) THEN Parsed(JBool("true"), i + 4)
        ELSE IF StartsAt(s, i, <<"f", "a", "l", "s", "e">>)
        THEN Parsed(JBool("false"), i + 5)
        ELSE SyntaxError

\* the elements of an array after "[" or ",": acc holds the ones read
ParseElements(s, i, acc) ==
    LET v == ParseValue(s, i)
        j == SkipWs(s, v.next)
    IN  IF ~v.ok THEN SyntaxError
        ELSE IF j > Len(s) THEN SyntaxError
        ELSE IF s[j] = "," THEN ParseElements(s, j + 1, Append(acc, v.val))
        ELSE IF s[j] = "]" THEN Parsed(JArray(Append(acc, v.val)), j + 1)
        ELSE SyntaxError

\* the members of an object after "{" or ",": acc holds the ones read
ParseMembers(s, i, acc) ==
    LET q == SkipWs(s, i)
        key == StringBody(s, q + 1, <<>>)
        c == SkipWs(s, key.next)
        v == ParseValue(s, c + 1)
        j == SkipWs(s, v.next)
    IN  IF q > Len(s) \/ s[q] # "\"" THEN SyntaxError
        ELSE IF ~key.ok THEN SyntaxError
        ELSE IF c > Len(s) \/ s[c] # ":" THEN SyntaxError
        ELSE IF ~v.ok THEN SyntaxError
        ELSE IF j > Len(s) THEN SyntaxError
        ELSE IF s[j] = ","
        THEN ParseMembers(s, j + 1, Append(acc, Member(key.val.s, v.val)))
        ELSE IF s[j] = "}"
        THEN Parsed(JObject(Append(acc, Member(key.val.s, v.val))), j + 1)
        ELSE SyntaxError

\* JSON.parse(text): one value, with nothing but white space around it
JSONParse(text) ==
    LET v == ParseValue(text, 1)
    IN  IF v.ok /\ SkipWs(text, v.next) > Len(text) THEN v ELSE SyntaxError

\* data[name]: of the members with that name the last one counts; a value
\* that is not an object has no such property
Prop(data, name) ==
    LET hits == IF data.t = "object"
                THEN {i \in 1..Len(data.items) : data.items[i].k = name}
                ELSE {}
    IN  IF hits = {} THEN JUndefined
        ELSE data.items[CHOOSE i \in hits : \A j \in hits : j <= i].v

RECURSIVE Join(_, _), LTrim(_), RTrim(_)

\* String(value) of an array element, as Array.prototype.join forms it
ElementString(value) ==
    IF value.t = "string" THEN value.s
    ELSE IF value.t = "true" THEN <<"t", "r", "u", "e">>
    ELSE IF value.t = "false" THEN <<"f", "a", "l", "s", "e">>
    ELSE IF value.t = "array" THEN Join(value.items, <<",">>)
    ELSE IF value.t = "object"
    THEN <<"[", "o", "b", "j", "e", "c", "t", " ", "O", "b", "j", "e", "c", "t", "]">>
    ELSE <<>>

\* elements.join(sep)
Join(elements, sep) ==
    IF elements = <<>> THEN <<>>
    ELSE IF Len(elements) = 1 THEN ElementString(elements[1])
    ELSE ElementString(Head(elements)) \o sep \o Join(Tail(elements), sep)

\* !value
Falsy(value) ==
    \/ value.t \in {"undefined", "null", "false"}
    \/ value.t = "string" /\ value.s = <<>>

LTrim(s) == IF s # <<>> /\ Head(s) \in JsonSpace THEN LTrim(Tail(s)) ELSE s
RTrim(s) ==
    IF s # <<>> /\ s[Len(s)] \in JsonSpace THEN RTrim(SubSeq(s, 1, Len(s) - 1))
    ELSE s
\* jsonInput.trim()
trim(s) == RTrim(LTrim(s))

\* the grave accent, which a TLA+ string cannot hold
Grave == "grave"
Fence == <<Grave, Grave, Grave>>

\* step 1 (lines 1147-1150): the markdown fence is taken off
Cleaned(input) ==
    LET cleaned == trim(input)
        \* .replace(/^```(json)?/, "")
        opened == IF StartsAt(cleaned, 4, <<"j", "s", "o", "n">>)
                  THEN SubSeq(cleaned, 8, Len(cleaned))
                  ELSE SubSeq(cleaned, 4, Len(cleaned))
        \* .replace(/```$/, "")
        closed == IF Len(opened) >= 3 /\ StartsAt(opened, Len(opened) - 2, Fence)
                  THEN SubSeq(opened, 1, Len(opened) - 3)
                  ELSE opened
    IN  IF StartsAt(cleaned, 1, Fence) THEN closed ELSE cleaned

kHtmlLines == <<"h", "t", "m", "l", "L", "i", "n", "e", "s">>
kHtml == <<"h", "t", "m", "l">>
kState == <<"s", "t", "a", "t", "e">>

\* what the try block does with the input, a call of onComplete or a throw
Rejected(message) == [call |-> <<>>, message |-> <<message>>]
Accepted(finalHtml, st) ==
    [call |-> <<[html |-> finalHtml, state |-> st]>>, message |-> <<>>]

\* InjectResult that does not look at data.state
InjectResult_NoStateCheck(input) ==
    LET parsed == JSONParse(Cleaned(input))
        data == parsed.val
        htmlLines == Prop(data, kHtmlLines)
        htmlProp == Prop(data, kHtml)
    IN  IF ~parsed.ok THEN Rejected("SyntaxError")
        ELSE IF data.t = "null" THEN Rejected("TypeError")
        ELSE IF htmlLines.t = "array"
        THEN Accepted(Join(htmlLines.items, <<"\n">>), Prop(data, kState))
        ELSE IF htmlProp.t = "string" THEN Accepted(htmlProp.s, Prop(data, kState))
        ELSE Rejected("Missing 'htmlLines' or 'html' key in JSON.")

\* the try block of handleInject (lines 1145-1178) on the text of the
\* textarea.  e.message of a SyntaxError or TypeError depends on the engine.
InjectResult(input) ==
    LET parsed == JSONParse(Cleaned(input))
        data == parsed.val
        htmlLines == Prop(data, kHtmlLines)
        htmlProp == Prop(data, kHtml)
        finalHtml == IF htmlLines.t = "array" THEN Join(htmlLines.items, <<"\n">>)
                     ELSE htmlProp.s
    IN  IF ~parsed.ok THEN Rejected("SyntaxError")
        \* data.htmlLines of null
        ELSE IF data.t = "null" THEN Rejected("TypeError")
        ELSE IF htmlLines.t # "array" /\ htmlProp.t # "string"
        THEN Rejected("Missing 'htmlLines' or 'html' key in JSON.")
        ELSE IF Falsy(Prop(data, kState))
        THEN Rejected("Missing 'state' key in JSON.")
        ELSE Accepted(finalHtml, Prop(data, kState))

----------------------------------------------------------------------------
(* Theme Rewriter: handleGlobalThemeUpdate (lines 263-303) and the values   *)
(* the theme panel offers (detectMainColors, lines 200-245).  The rewrite   *)
(* works on the html string: the markup is written out, the regular         *)
(* expression is matched character by character, and the result is read    *)
(* back as the Template the parser makes of it.  The tokens rewritten hold  *)
(* no character of tag syntax, so a match never covers a piece of it.       *)

UpperChars == <<"A", "B", "C", "D", "E", "F", "G", "H", "I", "J", "K", "L", "M", "N", "O", "P", "Q", "R", "S", "T", "U", "V", "W", "X", "Y", "Z">>
LowerChars == <<"a", "b", "c", "d", "e", "f", "g", "h", "i", "j", "k", "l", "m", "n", "o", "p", "q", "r", "s", "t", "u", "v", "w", "x", "y", "z">>
\* the i flag: characters compared without regard to case
ToLower(c) ==
    IF \E i \in 1..26 : UpperChars[i] = c
    THEN LowerChars[CHOOSE i \in 1..26 : UpperChars[i] = c] ELSE c
LowerCase(chars) == [i \in 1..Len(chars) |-> ToLower(chars[i])]
\* \w
WordChars == KeyChars \ {"-"}

MarkKinds == {"<tag", "attr=", "attr.", "tag>", "</tag>"}
IsMark(item) == item.c \in MarkKinds

\* String.startsWith
StartsWith(chars, prefix) ==
    Len(prefix) <= Len(chars) /\ SubSeq(chars, 1, Len(prefix)) = prefix

\* does s hold word from position i on, without regard to case
HoldsAtNoCase(s, i, word) ==
    /\ i + Len(word) - 1 <= Len(s)
    /\ \A n \in 1..Len(word) : ToLower(s[i + n - 1].c) = ToLower(word[n])

RECURSIVE Tokenize(_, _, _), ParseAttrs(_, _), ParseKids(_, _)
\* the tokens of a run of characters: the placeholder occurrences in the
\* spellings the model writes, and the literal text between them
Tokenize(s, i, lit) ==
    LET Spellings(k) ==
            {sp \in ScanSpellings :
                /\ regexExec(s, k).end # 0
                /\ RenderToken(Tok(sp, regexExec(s, k).key))
                     = SubSeq(s, k, regexExec(s, k).end - 1)}
        Flush(text) == IF text = <<>> THEN <<>> ELSE <<Lit(text)>>
        hits == {k \in i..Len(s) : Spellings(k) # {}}
    IN  IF hits = {} THEN Flush(lit \o CharsOf(SubSeq(s, i, Len(s))))
        ELSE Flush(lit \o CharsOf(SubSeq(s, i, First(hits) - 1)))
             \o <<Tok(CHOOSE sp \in Spellings(First(hits)) : TRUE,
                      regexExec(s, First(hits)).key)>>
             \o Tokenize(s, regexExec(s, First(hits)).end, <<>>)

\* the first position from j on that holds a piece of tag syntax
RunEnd(s, j) ==
    IF \E k \in j..Len(s) : IsMark(s[k])
    THEN CHOOSE k \in j..Len(s) : IsMark(s[k]) /\ \A n \in j..(k - 1) : ~IsMark(s[n])
    ELSE Len(s) + 1

\* the attributes of a start tag, from position j on
ParseAttrs(s, j) ==
    IF s[j].c = "attr="
    THEN LET e == RunEnd(s, j + 1)
             rest == ParseAttrs(s, e + 1)
         IN  [attrs |-> <<Attr(s[j].tag, Tokenize(SubSeq(s, j + 1, e - 1), 1, <<>>))>>
                        \o rest.attrs,
              next |-> rest.next]
    ELSE [attrs |-> <<>>, next |-> j]

\* DOMParser: the nodes written from position i on, up to the end tag of
\* their parent
ParseKids(s, i) ==
    IF i > Len(s) \/ s[i].c = "</tag>" THEN [kids |-> <<>>, next |-> i]
    ELSE IF s[i].c = "<tag"
    THEN LET a == ParseAttrs(s, i + 1)
             inner == ParseKids(s, a.next + 1)
             rest == ParseKids(s, inner.next + 1)
         IN  [kids |-> <<Elem(s[i].tag, a.attrs, inner.kids)>> \o rest.kids,
              next |-> rest.next]
    ELSE LET e == RunEnd(s, i)
             rest == ParseKids(s, e)
         IN  [kids |-> <<TextNode(Tokenize(SubSeq(s, i, e - 1), 1, <<>>))>> \o rest.kids,
              next |-> rest.next]

\* the parsed nodes as a Template: the leading <style> elements go to <head>
HeadAndBody(kids) ==
    LET lead == {n \in 0..Len(kids) : \A i \in 1..n : kids[i].tag = "STYLE"}
        h == CHOOSE n \in lead : \A m \in lead : m <= n
    IN  Template(SubSeq(kids, 1, h), SubSeq(kids, h + 1, Len(kids)))
\* the html string as the Template the parser makes of it
ParseHtml(s) == HeadAndBody(ParseKids(s, 1).kids)

\* the character before position i is a word character
WordBefore(s, i) == i > 1 /\ s[i - 1].c \in WordChars
\* (?=[\s"'\>\]]|$) at position e: the closing quote of an attribute value
\* is a quote
EndsToken(s, e) ==
    \/ e > Len(s)
    \/ s[e].c \in WhiteSpace \cup {"\"", "'", ">", "]"}
    \/ s[e].c \in {"attr.", "tag>"}

RECURSIVE ReplaceClass(_, _, _, _),
          ReplaceNoCase(_, _, _, _), ReplaceFontFamily(_, _, _, _), SplitOn(_, _)

\* next.replace(new RegExp(`\\b${escapedOld}(?=[\\s"'\\>\\]]|$)`, 'g'),
\* replacement), from position i on; old starts with a word character, so
\* \b holds when no word character precedes it
ReplaceClass(s, i, old, repl) ==
    LET hits == {k \in i..Len(s) :
                    ~WordBefore(s, k) /\ HoldsAt(s, k, old) /\ EndsToken(s, k + Len(old))}
    IN  IF hits = {} THEN SubSeq(s, i, Len(s))
        ELSE SubSeq(s, i, First(hits) - 1) \o Items(repl)
             \o ReplaceClass(s, First(hits) + Len(old), old, repl)

\* next.replace(new RegExp(escapedOld, 'gi'), newVal), from position i on
ReplaceNoCase(s, i, old, new) ==
    LET hits == {k \in i..Len(s) : HoldsAtNoCase(s, k, old)}
    IN  IF hits = {} THEN SubSeq(s, i, Len(s))
        ELSE SubSeq(s, i, First(hits) - 1) \o Items(new)
             \o ReplaceNoCase(s, First(hits) + Len(old), old, new)

\* newVal.replace(/\s+/g, '+')
PlusForSpace(chars) ==
    LET one == [i \in 1..Len(chars) |-> IF chars[i] \in WhiteSpace THEN "+" ELSE chars[i]]
        keep == {i \in 1..Len(one) : ~(one[i] = "+" /\ i > 1 /\ chars[i] \in WhiteSpace
                                       /\ chars[i - 1] \in WhiteSpace)}
    IN  [n \in 1..Cardinality(keep) |->
            one[CHOOSE i \in keep : Cardinality({j \in keep : j <= i}) = n]]

ImportPrefix ==
    <<"@", "i", "m", "p", "o", "r", "t", " ", "u", "r", "l", "(", "'", "h",
    "t", "t", "p", "s", ":", "/", "/", "f", "o", "n", "t", "s", ".",
    "g", "o", "o", "g", "l", "e", "a", "p", "i", "s", ".", "c", "o",
    "m", "/", "c", "s", "s", "2", "?", "f", "a", "m", "i", "l", "y", "=">>
ImportSuffix == <<"'", ")", ";">>
\* `@import url('${fontUrl}');`
ImportOf(newVal) ==
    ImportPrefix \o PlusForSpace(newVal)
    \o <<"&", "d", "i", "s", "p", "l", "a", "y", "=", "s", "w", "a", "p">>
    \o ImportSuffix

\* next.replace(/@import url\('https:\/\/fonts\.googleapis\.com\/css2\?family=[^']+'\);/,
\* ...): the first match only
ReplaceImport(s, newVal) ==
    LET QuoteAfter(i) ==
            IF \E k \in (i + Len(ImportPrefix))..Len(s) : s[k].c = "'"
            THEN CHOOSE k \in (i + Len(ImportPrefix))..Len(s) :
                    s[k].c = "'" /\ \A n \in (i + Len(ImportPrefix))..(k - 1) : s[n].c # "'"
            ELSE 0
        Matches(i) ==
            /\ HoldsAt(s, i, ImportPrefix)
            /\ QuoteAfter(i) > i + Len(ImportPrefix)
            /\ HoldsAt(s, QuoteAfter(i), ImportSuffix)
        hits == {i \in 1..Len(s) : Matches(i)}
    IN  IF hits = {} THEN s
        ELSE LET i == CHOOSE x \in hits : \A y \in hits : x <= y
             IN  SubSeq(s, 1, i - 1) \o Items(ImportOf(newVal))
                 \o SubSeq(s, QuoteAfter(i) + Len(ImportSuffix), Len(s))

FontFamily == <<"f", "o", "n", "t", "-", "f", "a", "m", "i", "l", "y", ":">>

\* next.replace(new RegExp(`(font-family:\\s*['"]?)${escapedOld}(['"]?[^;]*)`, 'gi'),
\* `$1${newVal}$2`), from position i on: a match runs to the next semicolon
ReplaceFontFamily(s, i, old, new) ==
    LET \* the position of ${escapedOld} in a match that starts at k
        NameAt(k) ==
            LET j == SkipSpace(s, k + Len(FontFamily))
            IN  IF j <= Len(s) /\ s[j].c \in {"'", "\""} THEN j + 1 ELSE j
        hits == {k \in i..Len(s) :
                    HoldsAtNoCase(s, k, FontFamily) /\ HoldsAtNoCase(s, NameAt(k), old)}
    IN  IF hits = {} THEN SubSeq(s, i, Len(s))
        ELSE LET q == NameAt(First(hits))
                 semis == {k \in (q + Len(old))..Len(s) : s[k].c = ";"}
                 e == IF semis = {} THEN Len(s) + 1 ELSE First(semis)
             IN  SubSeq(s, i, q - 1) \o Items(new) \o SubSeq(s, q + Len(old), e - 1)
                 \o ReplaceFontFamily(s, e, old, new)

\* the families of GOOGLE_FONTS (lines 68-71) that the model uses
fInter == <<"I", "n", "t", "e", "r">>
fLato == <<"L", "a", "t", "o">>
fOpenSans == <<"O", "p", "e", "n", " ", "S", "a", "n", "s">>
GOOGLE_FONTS == {fInter, fLato, fOpenSans}

\* /^(bg|text|border|ring|fill|stroke|outline)/
ClassPrefixes ==
    <<(<<"b", "g">>), (<<"t", "e", "x", "t">>), (<<"b", "o", "r", "d", "e", "r">>),
      (<<"r", "i", "n", "g">>), (<<"f", "i", "l", "l">>),
      (<<"s", "t", "r", "o", "k", "e">>), (<<"o", "u", "t", "l", "i", "n", "e">>)>>
\* oldVal.startsWith('bg-') || ... || oldVal.startsWith('stroke-'); the
\* listed classes bg-white ... text-transparent start with bg- or text-
isTailwind(oldVal) ==
    \E n \in 1..6 : StartsWith(oldVal, Append(ClassPrefixes[n], "-"))
\* prefixMatch[1], or <<>> for null
PrefixOf(oldVal) ==
    LET hits == {n \in 1..7 : StartsWith(oldVal, ClassPrefixes[n])}
    IN  IF hits = {} THEN <<>>
        ELSE ClassPrefixes[CHOOSE n \in hits : \A m \in hits : n <= m]
\* (prefix && newVal.startsWith('#')) ? `${prefix}-[${newVal}]` : newVal
Replacement(oldVal, newVal) ==
    IF PrefixOf(oldVal) # <<>> /\ StartsWith(newVal, <<"#">>)
    THEN PrefixOf(oldVal) \o <<"-", "[">> \o newVal \o <<"]">>
    ELSE newVal

\* the utility class replaced wherever it is written
ThemeRewrite_Substring(s, oldVal, newVal) ==
    IF oldVal \in GOOGLE_FONTS
    THEN ReplaceFontFamily(ReplaceImport(s, newVal), 1, oldVal, newVal)
    ELSE IF /\ isTailwind(oldVal)
            /\ ~StartsWith(oldVal, <<"#">>)
            /\ ~StartsWith(oldVal, <<"r", "g", "b">>)
         THEN ReplaceNoCase(s, 1, oldVal, Replacement(oldVal, newVal))
         ELSE ReplaceNoCase(s, 1, oldVal, newVal)

\* the function handleGlobalThemeUpdate gives to setHtml, on the html
\* string s (lines 267-301)
ThemeRewrite(s, oldVal, newVal) ==
    IF oldVal \in GOOGLE_FONTS
    THEN ReplaceFontFamily(ReplaceImport(s, newVal), 1, oldVal, newVal)
    ELSE IF /\ isTailwind(oldVal)
            /\ ~StartsWith(oldVal, <<"#">>)
            /\ ~StartsWith(oldVal, <<"r", "g", "b">>)
         THEN ReplaceClass(s, 1, oldVal, Replacement(oldVal, newVal))
         ELSE ReplaceNoCase(s, 1, oldVal, newVal)

\* the Template of the string next; the same string is the same Template
Reparsed(prev, s, next) == IF next = s THEN prev ELSE ParseHtml(next)
\* the Template that results from the rewrite
RewrittenHtml(prev, oldVal, newVal) ==
    LET s == RawHTML(prev)
    IN  Reparsed(prev, s, ThemeRewrite(s, oldVal, newVal))

\* the pieces of chars between the characters of seps
SplitOn(chars, seps) ==
    LET cut == {i \in 1..Len(chars) : chars[i] \in seps}
    IN  IF cut = {} THEN <<chars>>
        ELSE LET i == CHOOSE x \in cut : \A y \in cut : x <= y
             IN  <<SubSeq(chars, 1, i - 1)>> \o SplitOn(SubSeq(chars, i + 1, Len(chars)), seps)

\* the values of the attribute `name` of the elements, in document order
AttrValues(tpl, name) ==
    LET walk == Walk(tpl.body)
        Of(node) ==
            IF node.t = "text" THEN <<>>
            ELSE LET hits == SelectSeq(node.attrs, LAMBDA a : a.name = name)
                 IN  [i \in 1..Len(hits) |-> CharsOf(RenderTokens(hits[i].value))]
    IN  ConcatAll([i \in 1..Len(walk) |-> Of(NodeAt(tpl.body, walk[i]))])

\* el.classList of every element: the classes that start with bg-, text-
\* or border- (lines 216-220)
DetectedClasses(tpl) ==
    LET values == AttrValues(tpl, "class")
        classes == UNION {SeqToSet(SplitOn(values[i], WhiteSpace)) : i \in 1..Len(values)}
    IN  {c \in classes : \E n \in 1..3 : StartsWith(c, Append(ClassPrefixes[n], "-"))}

HexDigits == {"0", "1", "2", "3", "4", "5", "6", "7", "8", "9",
              "a", "b", "c", "d", "e", "f", "A", "B", "C", "D", "E", "F"}
Black == <<"#", "0", "0", "0", "0", "0", "0">>
\* rgbToHex(style.color) for a color written as #rrggbb or #rrggbbaa: the
\* style object gives rgb(r, g, b), of which rgbToHex makes the lower-case
\* hex, or rgba(...), which rgbToHex does not match (lines 340-349)
DetectedHex(value) ==
    IF Len(value) = 7 THEN LowerCase(value) ELSE Black
IsHexColor(value) ==
    /\ Len(value) \in {7, 9}
    /\ value[1] = "#"
    /\ \A i \in 2..Len(value) : value[i] \in HexDigits
    /\ Len(value) = 9 => LowerCase(SubSeq(value, 8, 9)) # <<"f", "f">>

\* the declarations [name, value] of the style attributes, in document order
Declarations(tpl) ==
    LET values == AttrValues(tpl, "style")
        decls == ConcatAll([i \in 1..Len(values) |-> SplitOn(values[i], {";"})])
        named == SelectSeq(decls, LAMBDA d : \E i \in 1..Len(d) : d[i] = ":")
    IN  [i \in 1..Len(named) |->
            LET d == named[i]
                c == CHOOSE x \in 1..Len(d) : d[x] = ":" /\ \A y \in 1..(x - 1) : d[y] # ":"
            IN  [name |-> trim(SubSeq(d, 1, c - 1)), value |-> trim(SubSeq(d, c + 1, Len(d)))]]

\* the colors of the inline styles (lines 222-225), for colors written in hex
DetectedInline(tpl) ==
    LET decls == Declarations(tpl)
    IN  {DetectedHex(decls[i].value) :
            i \in {j \in 1..Len(decls) :
                     /\ decls[j].name \in {<<"c", "o", "l", "o", "r">>,
                          <<"b", "a", "c", "k", "g", "r", "o", "u", "n", "d", "-", "c", "o", "l", "o", "r">>,
                          <<"b", "o", "r", "d", "e", "r", "-", "c", "o", "l", "o", "r">>}
                     /\ IsHexColor(decls[j].value)}}

\* detectedColors.bg, .text and .border: the tokens the theme panel lists
DetectedColors(tpl) == DetectedClasses(tpl) \cup DetectedInline(tpl)

\* cleanFontName: font.split(',')[0].replace(/['"]/g, '').trim()
FirstFamily(value) ==
    trim(SelectSeq(Head(SplitOn(value, {","})), LAMBDA c : c \notin {"'", "\""}))
\* detectedFonts: the first family of every inline font-family, in order
DetectedFonts(tpl) ==
    LET decls == SelectSeq(Declarations(tpl),
                    LAMBDA d : d.name = SubSeq(FontFamily, 1, Len(FontFamily) - 1))
    IN  Uniq([i \in 1..Len(decls) |-> FirstFamily(decls[i].value)])

----------------------------------------------------------------------------
(* Page font: handlePageFontUpdate (lines 247-261), on the html string *)

siteFontId == <<"s", "i", "t", "e", "-", "f", "o", "n", "t">>

\* the first position from j on that holds the end tag </style>, or 0
StyleClose(s, j) ==
    LET ends == {k \in j..Len(s) : s[k].c = "</tag>" /\ s[k].tag = "STYLE"}
    IN  IF ends = {} THEN 0 ELSE CHOOSE k \in ends : \A n \in ends : k <= n

\* /<style id=["']site-font["']>[\s\S]*?<\/style>/gi matched at position i
\* of s: the position after the match, or 0.  The start tag has the
\* attribute id and no other.
SiteFontEnd(s, i) ==
    IF /\ i + Len(siteFontId) + 3 <= Len(s)
       /\ s[i].c = "<tag" /\ s[i].tag = "STYLE"
       /\ s[i + 1].c = "attr=" /\ s[i + 1].tag = "id"
       /\ HoldsAtNoCase(s, i + 2, siteFontId)
       /\ s[i + 2 + Len(siteFontId)].c = "attr."
       /\ s[i + 3 + Len(siteFontId)].c = "tag>"
       /\ StyleClose(s, i + 4 + Len(siteFontId)) # 0
    THEN StyleClose(s, i + 4 + Len(siteFontId)) + 1
    ELSE 0

RECURSIVE RemoveSiteFont(_, _)
\* RemoveSiteFont that removes the first block only (no g flag)
RemoveSiteFont_First(s, i) ==
    LET hits == {k \in i..Len(s) : SiteFontEnd(s, k) # 0}
    IN  IF hits = {} THEN SubSeq(s, i, Len(s))
        ELSE SubSeq(s, i, First(hits) - 1)
             \o SubSeq(s, SiteFontEnd(s, First(hits)), Len(s))

\* prev.replace(/<style id=["']site-font["']>[\s\S]*?<\/style>/gi, ""),
\* from position i on
RemoveSiteFont(s, i) ==
    LET hits == {k \in i..Len(s) : SiteFontEnd(s, k) # 0}
    IN  IF hits = {} THEN SubSeq(s, i, Len(s))
        ELSE SubSeq(s, i, First(hits) - 1)
             \o RemoveSiteFont(s, SiteFontEnd(s, First(hits)))

\* fontCss (lines 253-254)
FontCss(newFont) ==
    ImportOf(newFont)
    \o <<"\n", "b", "o", "d", "y", ",", " ", "#", "a", "p", "p", ",", " ",
         "#", "a", "p", "p", " ", "*", " ", "{", " ">>
    \o FontFamily \o <<" ", "'">> \o newFont
    \o <<"'", ",", " ", "s", "a", "n", "s", "-", "s", "e", "r", "i", "f", " ",
         "!", "i", "m", "p", "o", "r", "t", "a", "n", "t", ";", " ", "}">>

\* `<style id="site-font">${fontCss}</style>`
NewStyleTag(newFont) ==
    <<Mark("<tag", "STYLE", <<>>), Mark("attr=", "id", <<>>)>>
    \o Items(siteFontId)
    \o <<Mark("attr.", "id", <<>>), Mark("tag>", "STYLE", <<>>)>>
    \o Items(FontCss(newFont))
    \o <<Mark("</tag>", "STYLE", <<>>)>>

\* the function handlePageFontUpdate gives to setHtml, on the html string s;
\* newFont is <<>> for ""
PageFontRewrite(s, newFont) ==
    IF newFont # <<>> THEN NewStyleTag(newFont) \o RemoveSiteFont(s, 1)
    ELSE RemoveSiteFont(s, 1)

\* the Template that results from the page font update
PageFontHtml(prev, newFont) ==
    LET s == RawHTML(prev)
    IN  Reparsed(prev, s, PageFontRewrite(s, newFont))

----------------------------------------------------------------------------
(* Inputs: the placeholder keys, State values and Templates explored *)

kTitle == <<"t", "i", "t", "l", "e">>
kLink1 == <<"l", "i", "n", "k", "1">>
kLink3 == <<"l", "i", "n", "k", "3">>
kTab == <<"t", "a", "b">>
kA == <<"a">>
kA1 == <<"a", "_", "1">>
kB == <<"b">>

vCustom == <<"c", "u", "s", "t", "o", "m">>
vOther == <<"o", "t", "h", "e", "r">>
\* the text {{title}} typed as a value
vToken == <<"{", "{">> \o kTitle \o <<"}", "}">>

\* <h1>{{title}}</h1><a href="%7B%7Blink1%7D%7D">go</a>
TLink1 ==
    Template(<<>>, <<Elem("H1", <<>>, <<TextNode(<<Tok("plain", kTitle)>>)>>),
                     Elem("A", <<Attr("href", <<Tok("enc", kLink1)>>)>>,
                          <<TextNode(<<Lit(<<"g", "o">>)>>)>>)>>)
\* <h1>{{title}}</h1><a href="%7B%7Blink3%7D%7D">go</a>
TLink3 ==
    Template(<<>>, <<Elem("H1", <<>>, <<TextNode(<<Tok("plain", kTitle)>>)>>),
                     Elem("A", <<Attr("href", <<Tok("enc", kLink3)>>)>>,
                          <<TextNode(<<Lit(<<"g", "o">>)>>)>>)>>)
\* <p>{{ tab }}</p>
TTab ==
    Template(<<>>, <<Elem("P", <<>>, <<TextNode(<<Tok("spaced", kTab)>>)>>)>>)
\* <ul><li>{{a}}<b>{{ a_1 }}</b></li><li>{{b}}</li></ul>{{title}}
TList ==
    Template(<<>>,
        <<Elem("UL", <<>>,
            <<Elem("LI", <<>>, <<TextNode(<<Tok("plain", kA)>>),
                                 Elem("B", <<>>, <<TextNode(<<Tok("spaced", kA1)>>)>>)>>),
              Elem("LI", <<>>, <<TextNode(<<Tok("plain", kB)>>)>>)>>),
          TextNode(<<Tok("plain", kTitle)>>)>>)

\* <ul><li>{{a}}</li>, <li>{{b}}</li><li>{{a_1}}</li><li>{{ tab }}</li></ul>
\* <ol><li>{{title}}</li></ol>
TSwap ==
    Template(<<>>,
        <<Elem("UL", <<>>,
            <<Elem("LI", <<>>, <<TextNode(<<Tok("plain", kA)>>)>>),
              TextNode(<<Lit(<<",", " ">>)>>),
              Elem("LI", <<>>, <<TextNode(<<Tok("plain", kB)>>)>>),
              Elem("LI", <<>>, <<TextNode(<<Tok("plain", kA1)>>)>>),
              Elem("LI", <<>>, <<TextNode(<<Tok("spaced", kTab)>>)>>)>>),
          Elem("OL", <<>>,
            <<Elem("LI", <<>>, <<TextNode(<<Tok("plain", kTitle)>>)>>)>>)>>)

\* <div id="app"><h1>{{title}}</h1></div><p>{{ tab }}</p>
TApp ==
    Template(<<>>,
        <<Elem("DIV", <<Attr("id", <<Lit(AppId)>>)>>,
            <<Elem("H1", <<>>, <<TextNode(<<Tok("plain", kTitle)>>)>>)>>),
          Elem("P", <<>>, <<TextNode(<<Tok("spaced", kTab)>>)>>)>>)

\* <ul><li>{{a}}</li><li><b>{{ b }}</b></li>
\* <li><a href="%7B%7Blink1%7D%7D">go</a></li></ul>
TItems ==
    Template(<<>>,
        <<Elem("UL", <<>>,
            <<Elem("LI", <<>>, <<TextNode(<<Tok("plain", kA)>>)>>),
              Elem("LI", <<>>, <<Elem("B", <<>>, <<TextNode(<<Tok("spaced", kB)>>)>>)>>),
              Elem("LI", <<>>,
                <<Elem("A", <<Attr("href", <<Tok("enc", kLink1)>>)>>,
                       <<TextNode(<<Lit(<<"g", "o">>)>>)>>)>>)>>)>>)

\* <ul><li class="{{a}}">x</li><li>{{b}}</li></ul>
TItemAttr ==
    Template(<<>>,
        <<Elem("UL", <<>>,
            <<Elem("LI", <<Attr("class", <<Tok("plain", kA)>>)>>,
                   <<TextNode(<<Lit(<<"x">>)>>)>>),
              Elem("LI", <<>>, <<TextNode(<<Tok("plain", kB)>>)>>)>>)>>)

\* <main><div>{{a}}</div><div><p>{{b}}</p></div><article>{{tab}}</article></main>
\* <section><ul><li><section>{{title}}</section></li></ul></section>
TCards ==
    Template(<<>>,
        <<Elem("MAIN", <<>>,
            <<Elem("DIV", <<>>, <<TextNode(<<Tok("plain", kA)>>)>>),
              Elem("DIV", <<>>, <<Elem("P", <<>>, <<TextNode(<<Tok("plain", kB)>>)>>)>>),
              Elem("ARTICLE", <<>>, <<TextNode(<<Tok("plain", kTab)>>)>>)>>),
          Elem("SECTION", <<>>,
            <<Elem("UL", <<>>,
                <<Elem("LI", <<>>,
                    <<Elem("SECTION", <<>>,
                         <<TextNode(<<Tok("plain", kTitle)>>)>>)>>)>>)>>)>>)

\* <table><tbody><tr><td>{{a}}</td><td>{{b}}</td></tr></tbody></table>
\* <div><div>{{a_1}}</div><span>{{tab}}</span></div><div>{{title}}</div>
TRows ==
    Template(<<>>,
        <<Elem("TABLE", <<>>,
            <<Elem("TBODY", <<>>,
                <<Elem("TR", <<>>,
                    <<Elem("TD", <<>>, <<TextNode(<<Tok("plain", kA)>>)>>),
                      Elem("TD", <<>>, <<TextNode(<<Tok("plain", kB)>>)>>)>>)>>)>>),
          Elem("DIV", <<>>,
            <<Elem("DIV", <<>>, <<TextNode(<<Tok("plain", kA1)>>)>>),
              Elem("SPAN", <<>>, <<TextNode(<<Tok("plain", kTab)>>)>>)>>),
          Elem("DIV", <<>>, <<TextNode(<<Tok("plain", kTitle)>>)>>)>>)

\* <ul><li>{{a}}{{b}}</li></ul>{{a}}<p>{{title}}</p>
TRepeat ==
    Template(<<>>,
        <<Elem("UL", <<>>,
            <<Elem("LI", <<>>, <<TextNode(<<Tok("plain", kA), Tok("plain", kB)>>)>>)>>),
          TextNode(<<Tok("plain", kA)>>),
          Elem("P", <<>>, <<TextNode(<<Tok("plain", kTitle)>>)>>)>>)

\* <ul><li>{{a}}{{b}}</li><li>{{a}}{{title}}</li></ul>
TTwice ==
    Template(<<>>,
        <<Elem("UL", <<>>,
            <<Elem("LI", <<>>, <<TextNode(<<Tok("plain", kA), Tok("plain", kB)>>)>>),
              Elem("LI", <<>>, <<TextNode(<<Tok("plain", kA), Tok("plain", kTitle)>>)>>)>>)>>)

\* the Templates explored for Group Inference
GroupEdits == {TItems, TItemAttr, TCards, TRows, TRepeat, TList, TTwice}

\* a State with the default value of every key of the Template
DefaultState(tpl) ==
    [i \in 1..Len(FoundKeys(tpl)) |->
        [k |-> FoundKeys(tpl)[i], v |-> DefaultValue(FoundKeys(tpl)[i])]]

\* the project records explored for Group Inference
GroupProjects == {[html |-> tpl, state |-> DefaultState(tpl)] : tpl \in GroupEdits}

\* utility classes, colors and text of the Templates with a theme
cBgBlue600 == <<"b", "g", "-", "b", "l", "u", "e", "-", "6", "0", "0">>
cMyBgBlue600 == <<"m", "y", "-", "b", "g", "-", "b", "l", "u", "e", "-", "6", "0", "0">>
cTextWhite == <<"t", "e", "x", "t", "-", "w", "h", "i", "t", "e">>
tBgBlue600ish == <<"b", "g", "-", "b", "l", "u", "e", "-", "6", "0", "0", "-", "i", "s",
        "h">>
sWhite == <<"c", "o", "l", "o", "r", ":", "#", "f", "f", "f", "f", "f", "f">>
sWhiteAlpha == <<"c", "o", "l", "o", "r", ":", "#", "f", "f", "f", "f", "f", "f", "8",
        "0">>
sInter == <<"f", "o", "n", "t", "-", "f", "a", "m", "i", "l", "y", ":", "I", "n",
        "t", "e", "r">>
sLato == <<"f", "o", "n", "t", "-", "f", "a", "m", "i", "l", "y", ":", "'", "L",
        "a", "t", "o", "'", ",", " ", "s", "e", "r", "i", "f", ";",
        "c", "o", "l", "o", "r", ":", "#", "F", "F", "0", "0", "0", "0">>
\* values of <input type="color">
cRed == <<"#", "f", "f", "0", "0", "0", "0">>
cGreen == <<"#", "0", "0", "f", "f", "0", "0">>
ColorInputs == {cRed, cGreen}

\* <div class="bg-blue-600">bg-blue-600-ish</div>
TThemeBlue ==
    Template(<<>>,
        <<Elem("DIV", <<Attr("class", <<Lit(cBgBlue600)>>)>>,
               <<TextNode(<<Lit(tBgBlue600ish)>>)>>)>>)
\* <div class="bg-blue-600 text-white">{{title}}</div>
\* <div class="my-bg-blue-600">x</div>
TThemeMy ==
    Template(<<>>,
        <<Elem("DIV", <<Attr("class", <<Lit(cBgBlue600 \o <<" ">> \o cTextWhite)>>)>>,
               <<TextNode(<<Tok("plain", kTitle)>>)>>),
          Elem("DIV", <<Attr("class", <<Lit(cMyBgBlue600)>>)>>,
               <<TextNode(<<Lit(<<"x">>)>>)>>)>>)
\* <p style="color:#ffffff">{{a}}</p><p style="color:#ffffff80">b</p>
TThemeHex ==
    Template(<<>>,
        <<Elem("P", <<Attr("style", <<Lit(sWhite)>>)>>,
               <<TextNode(<<Tok("plain", kA)>>)>>),
          Elem("P", <<Attr("style", <<Lit(sWhiteAlpha)>>)>>,
               <<TextNode(<<Lit(<<"b">>)>>)>>)>>)
\* <h1 style="font-family:Inter">{{title}}</h1>
\* <p style="font-family:'Lato', serif;color:#FF0000">Lato</p>
TThemeFont ==
    Template(<<>>,
        <<Elem("H1", <<Attr("style", <<Lit(sInter)>>)>>,
               <<TextNode(<<Tok("plain", kTitle)>>)>>),
          Elem("P", <<Attr("style", <<Lit(sLato)>>)>>,
               <<TextNode(<<Lit(fLato)>>)>>)>>)

\* the Templates explored for the Theme Rewriter
ThemeEdits == {TThemeBlue, TThemeMy, TThemeHex, TThemeFont}
ThemeProjects == {[html |-> tpl, state |-> DefaultState(tpl)] : tpl \in ThemeEdits}

\* <p>{{a}}</p><p>{{b}}</p>
TPair ==
    Template(<<>>, <<Elem("P", <<>>, <<TextNode(<<Tok("plain", kA)>>)>>),
                     Elem("P", <<>>, <<TextNode(<<Tok("plain", kB)>>)>>)>>)
\* <p>{{b}}</p>
TOnlyB ==
    Template(<<>>, <<Elem("P", <<>>, <<TextNode(<<Tok("plain", kB)>>)>>)>>)

\* the Templates explored for keys that leave and come back
KeyEdits == {TPair, TOnlyB, TLink1}
\* the project records explored for them: a Template with its keys at their
\* defaults, and one with both keys customized
KeyProjects ==
    {[html |-> TPair, state |-> DefaultState(TPair)],
     [html |-> TLink1, state |-> <<[k |-> kLink1, v |-> vCustom], [k |-> kTitle, v |-> vOther]>>]}

\* <ul><li class="{{a}}">{{b}}</li><li>{{title}}</li></ul>
TAnchorAttr ==
    Template(<<>>,
        <<Elem("UL", <<>>,
            <<Elem("LI", <<Attr("class", <<Tok("plain", kA)>>)>>,
                   <<TextNode(<<Tok("plain", kB)>>)>>),
              Elem("LI", <<>>, <<TextNode(<<Tok("plain", kTitle)>>)>>)>>)>>)

\* the Templates explored for the clone that Duplicate makes
CloneEdits == {TAnchorAttr, TItems}
CloneProjects == {[html |-> tpl, state |-> DefaultState(tpl)] : tpl \in CloneEdits}

\* a site-font block with the style sheet css
SiteFontBlock(css) ==
    Elem("STYLE", <<Attr("id", <<Lit(siteFontId)>>)>>, <<TextNode(<<Lit(css)>>)>>)
\* a site-font block as the editor writes it
SiteFont(font) == SiteFontBlock(FontCss(font))
\* body{font-family:Lato} and body{color:red}
cssLato == <<"b", "o", "d", "y", "{">> \o FontFamily \o fLato \o <<"}">>
cssRed == <<"b", "o", "d", "y", "{", "c", "o", "l", "o", "r", ":", "r", "e", "d", "}">>
\* <style id="site-font">...Lato...</style><h1>{{title}}</h1>
TFontOne ==
    Template(<<SiteFont(fLato)>>,
             <<Elem("H1", <<>>, <<TextNode(<<Tok("plain", kTitle)>>)>>)>>)
\* <style id="site-font">body{font-family:Lato}</style>
\* <style id="site-font">body{color:red}</style><h1>{{title}}</h1>
TFontTwo ==
    Template(<<SiteFontBlock(cssLato), SiteFontBlock(cssRed)>>,
             <<Elem("H1", <<>>, <<TextNode(<<Tok("plain", kTitle)>>)>>)>>)
\* <h1>{{title}}</h1><div><style id="site-font">body{color:red}</style>{{ tab }}</div>
TFontInBody ==
    Template(<<>>,
             <<Elem("H1", <<>>, <<TextNode(<<Tok("plain", kTitle)>>)>>),
               Elem("DIV", <<>>, <<SiteFontBlock(cssRed), TextNode(<<Tok("spaced", kTab)>>)>>)>>)
\* <h1>{{title}}</h1>
TFontNone ==
    Template(<<>>, <<Elem("H1", <<>>, <<TextNode(<<Tok("plain", kTitle)>>)>>)>>)

\* the Templates explored for the page font; their site-font blocks carry
\* the attribute id and no other, as the blocks the editor writes
FontEdits == {TFontNone, TFontOne, TFontTwo, TFontInBody, TTab}
FontProjects == {[html |-> tpl, state |-> DefaultState(tpl)] : tpl \in FontEdits}
\* the options of the select of the page font (lines 1007-1010)
PageFonts == GOOGLE_FONTS \cup {<<>>}

\* <ul><li class="bg-blue-600">{{a}}</li></ul>
TCursor ==
    Template(<<>>,
        <<Elem("UL", <<>>,
            <<Elem("LI", <<Attr("class", <<Lit(cBgBlue600)>>)>>,
                   <<TextNode(<<Tok("plain", kA)>>)>>)>>)>>)

\* the Templates explored for the cursor of the history log
CursorEdits == {TCursor, TOnlyB}
CursorProjects == {[html |-> TCursor, state |-> DefaultState(TCursor)]}

\* the Templates the code editor's onChange delivers
CodeEdits == {TLink1, TLink3, TTab, TList}

\* the Template the code editor delivers while groups are dragged: the
\* groups inferred before the edit are stale after it
SwapEdits == {TList}

\* the Templates the code editor delivers while the preview is followed
PreviewEdits == {TTab, TApp}

\* the two Templates the code editor alternates between when the history
\* log is filled up to HISTORY_LIMIT
HistoryEdits == {TLink3, TTab}

\* the fields the user types into, and the values typed
FormEditKeys == {kTitle}
FormValues == {vCustom}

\* the values typed while the preview is followed
PreviewValues == {vCustom, vToken}

\* lines of html in a blueprint: <h1>{{title}}</h1> and <p class="x">hi</p>
lineTitle == <<"<", "h", "1", ">", "{", "{", "t", "i", "t", "l", "e", "}", "}", "<",
             "/", "h", "1", ">">>
lineClass == <<"<", "p", " ", "c", "l", "a", "s", "s", "=", "\"", "x", "\"", ">",
             "h", "i", "<", "/", "p", ">">>
\* { "title": "My App" }
stateTitle == JObject(<<Member(kTitle, JString(<<"M", "y", " ", "A", "p", "p">>))>>)

RECURSIVE Escaped(_), WrittenAll(_, _)
\* the characters of a string inside a JSON string literal
Escaped(chars) ==
    IF chars = <<>> THEN <<>>
    ELSE (IF Head(chars) \in {"\"", "\\"} THEN <<"\\", Head(chars)>>
          ELSE IF Head(chars) = "\n" THEN <<"\\", "n">>
          ELSE <<Head(chars)>>) \o Escaped(Tail(chars))

\* a JSON value as the assistant writes it in its response (the format of
\* the prompt, lines 1105-1127); object is TRUE for the members of an object
WrittenAll(items, object) ==
    IF items = <<>> THEN <<>>
    ELSE LET x == Head(items)
             one == IF object
                    THEN <<"\"">> \o Escaped(x.k) \o <<"\"", ":", " ">>
                         \o WrittenAll(<<x.v>>, FALSE)
                    ELSE IF x.t = "string" THEN <<"\"">> \o Escaped(x.s) \o <<"\"">>
                    ELSE IF x.t = "array"
                    THEN <<"[">> \o WrittenAll(x.items, FALSE) \o <<"]">>
                    ELSE IF x.t = "object"
                    THEN <<"{">> \o WrittenAll(x.items, TRUE) \o <<"}">>
                    ELSE <<"n", "u", "l", "l">>
         IN  one \o (IF Len(items) > 1 THEN <<",", " ">> ELSE <<>>)
             \o WrittenAll(Tail(items), object)
Written(value) == WrittenAll(<<value>>, FALSE)

\* the response inside a markdown code block, as the prompt asks for it
Fenced(text) ==
    Fence \o <<"j", "s", "o", "n", "\n">> \o text \o <<"\n">> \o Fence

\* the blueprints explored
bLines ==
    JObject(<<Member(kHtmlLines, JArray(<<JString(lineTitle), JString(lineClass)>>)),
              Member(kState, stateTitle)>>)
bHtml == JObject(<<Member(kHtml, JString(lineTitle)), Member(kState, JObject(<<>>))>>)
bBoth ==
    JObject(<<Member(kHtmlLines, JArray(<<JString(lineClass)>>)),
              Member(kHtml, JString(lineTitle)), Member(kState, stateTitle)>>)
bLinesNoArray ==
    JObject(<<Member(kHtmlLines, JString(lineClass)),
              Member(kHtml, JString(lineTitle)), Member(kState, stateTitle)>>)
bNoHtml == JObject(<<Member(kState, stateTitle)>>)
bNoState == JObject(<<Member(kHtmlLines, JArray(<<JString(lineTitle)>>))>>)
bNullState == JObject(<<Member(kHtml, JString(lineTitle)), Member(kState, JNull)>>)

\* a pasted text, with what it is: kind says whether it is a blueprint, and
\* html and state are the Template and State a valid one stands for
Case(text, kind, h, st) == [text |-> text, kind |-> kind, html |-> h, state |-> st]

InjectCases ==
    {Case(Written(bLines), "valid", lineTitle \o <<"\n">> \o lineClass, stateTitle),
     Case(<<" ", "\n">> \o Fenced(Written(bLines)) \o <<"\n">>, "valid",
          lineTitle \o <<"\n">> \o lineClass, stateTitle),
     Case(Fence \o Written(bHtml) \o Fence, "valid", lineTitle, JObject(<<>>)),
     Case(Written(bBoth), "valid", lineClass, stateTitle),
     Case(Written(bLinesNoArray), "valid", lineTitle, stateTitle),
     Case(<<>>, "unparsable", <<>>, JUndefined),
     Case(<<"h", "e", "l", "l", "o">>, "unparsable", <<>>, JUndefined),
     \* the response without its last character
     Case(SubSeq(Written(bLines), 1, Len(Written(bLines)) - 1), "unparsable",
          <<>>, JUndefined),
     \* the response with a sentence after it
     Case(Written(bHtml) \o <<" ", "D", "o", "n", "e", "!">>, "unparsable",
          <<>>, JUndefined),
     Case(Written(bNoHtml), "nohtml", <<>>, JUndefined),
     Case(Written(JNull), "nohtml", <<>>, JUndefined),
     Case(Fenced(Written(JArray(<<>>))), "nohtml", <<>>, JUndefined),
     Case(Written(bNoState), "nostate", <<>>, JUndefined),
     Case(Fenced(Written(bNullState)), "nostate", <<>>, JUndefined)}

\* the texts pasted into the textarea
InjectTexts == {c.text : c \in InjectCases}

Entry(key, value) == [k |-> key, v |-> value]

\* the project records { html, state } the editor is opened with
InitialProjects ==
    {[html |-> TLink1,
      state |-> <<Entry(kLink1, vCustom), Entry(kTitle, DefaultValue(kTitle))>>],
     [html |-> TList,
      state |-> <<Entry(kA, DefaultValue(kA)), Entry(kA1, vOther),
                  Entry(kB, vCustom), Entry(kTitle, DefaultValue(kTitle))>>]}

\* the project explored for the history log: its Template is none of
\* HistoryEdits, so it is in the log only while the first entry is kept
HistoryProjects == {project \in InitialProjects : project.html = TLink1}

\* the project explored for the preview
PreviewProjects == HistoryProjects

\* the project records explored for the drag-and-drop reorder
SwapProjects ==
    {[html |-> TSwap,
      state |-> <<Entry(kA, DefaultValue(kA)), Entry(kB, vCustom),
                  Entry(kA1, vOther), Entry(kTab, DefaultValue(kTab)),
                  Entry(kTitle, DefaultValue(kTitle))>>]}

----------------------------------------------------------------------------
(* Hooks shared by the handlers *)

\* setHtml without the shift
setHtml_NoShift(next, h, hi) ==
    IF next # html
    THEN LET pushed == Append(SubSeq(h, 1, hi + 1), next)
         IN  [html |-> next, history |-> pushed, historyIndex |-> Len(pushed) - 1]
    ELSE [html |-> next, history |-> history, historyIndex |-> historyIndex]

\* setHtml(next) called from a render whose history and historyIndex were
\* h and hi (lines 39-51); the Template, history and cursor that result
setHtml(next, h, hi) ==
    IF next # html
    THEN LET pushed == Append(SubSeq(h, 1, hi + 1), next)
             newHistory == IF Len(pushed) > HISTORY_LIMIT THEN Tail(pushed) ELSE pushed
         IN  [html |-> next, history |-> newHistory, historyIndex |-> Len(newHistory) - 1]
    ELSE [html |-> next, history |-> history, historyIndex |-> historyIndex]

\* ClearTimeout when the effect returns no cleanup
ClearTimeout_Keep(timers) == timers

\* clearTimeout(timer) in the cleanup of a debounce effect: timer is the
\* one the previous run of the effect created, the newest pending one
ClearTimeout(timers) ==
    IF timers = <<>> THEN <<>> ELSE SubSeq(timers, 1, Len(timers) - 1)

\* the two effects with dependency [html] (lines 128-195, 491-571): when
\* html changes, the cleanup clears the pending timer and a new one is set
Debounce(timers, next) ==
    IF next # html THEN Append(ClearTimeout(timers), next) ELSE timers

\* the state updates of a handler that ends with html = r.html
CommitHtml(r) ==
    /\ html' = r.html
    /\ history' = r.history
    /\ historyIndex' = r.historyIndex
    /\ reconTimers' = Debounce(reconTimers, r.html)
    /\ groupTimers' = Debounce(groupTimers, r.html)

\* showToast that sets no toast
showToast_Silent(message, onUndo) ==
    /\ toast' = toast
    /\ toastTimers' = toastTimers

\* showToast that leaves a toast on display in place
showToast_KeepShown(message, onUndo) ==
    /\ toast' = IF toast = <<>> THEN <<[message |-> message, onUndo |-> onUndo]>>
                ELSE toast
    /\ toastTimers' = toastTimers + 1

\* showToast(message, onUndo) (lines 385-388); onUndo is <<>> or <<closure>>
showToast(message, onUndo) ==
    /\ toast' = <<[message |-> message, onUndo |-> onUndo]>>
    /\ toastTimers' = toastTimers + 1

UpdateHtml(processedHtml) == [type |-> "UPDATE_HTML", html |-> processedHtml]

\* updateIframe that posts the content of srcDoc
updateIframe_SrcDoc(h, s) ==
    toFrame' = IF frameLoaded THEN Append(toFrame, UpdateHtml(srcDoc)) ELSE toFrame

\* updateIframe() in a render with html = h and state = s (Preview.tsx
\* lines 167-177).  A message posted while the script of the iframe has not
\* run yet finds no listener and is lost.
updateIframe(h, s) ==
    toFrame' = IF frameLoaded
               THEN Append(toFrame, UpdateHtml(getProcessedHtml(h, s)))
               ELSE toFrame

\* the effect of Preview with dependencies [html, state] (lines 180-182),
\* after the handler of this step: rerun says whether html or state is a
\* new value for React
Sync(rerun) ==
    /\ (rerun /\ frameLoaded) => Len(toFrame) < MaxInFlight
    /\ IF rerun THEN updateIframe(html', state') ELSE toFrame' = toFrame
    /\ UNCHANGED <<srcDoc, frameLoaded, frameApp, toHost>>

\* the record kept in `last`: the handler, its argument, the Template, State
\* and pending debounce timers it started from, and what it computed
Call(op, key, res) ==
    [op |-> op, key |-> key, html |-> html, state |-> state,
     reconTimers |-> reconTimers, groupTimers |-> groupTimers, res |-> res]

\* the keys the form shows a control for
FormKeys == KeySet(state) \cup SeqToSet(FoundKeys(html))

----------------------------------------------------------------------------
(* Initial state and actions *)

\* the state after the first render of EditorInterface with a project
InitWith(project) ==
    /\ html = project.html
    /\ state = project.state
    /\ history = <<project.html>>
    /\ historyIndex = 0
    /\ toast = <<>>
    /\ toastTimers = 0
    /\ focusKey = <<>>
    /\ fieldGroups = <<>>
    /\ repeatableKeys = {}
    /\ reconTimers = <<project.html>>
    /\ groupTimers = <<project.html>>
    /\ srcDoc = getProcessedHtml(project.html, project.state)
    /\ frameLoaded = FALSE
    /\ frameApp = <<>>
    /\ toFrame = <<>>
    /\ toHost = <<>>
    /\ isSaving = FALSE
    /\ lastSaved = FALSE
    /\ saving = <<>>
    /\ saveTimers = 0
    /\ jsonInput = <<>>
    /\ error = <<>>
    /\ completed = <<>>
    /\ last = [op |-> "mount", key |-> <<>>, html |-> project.html,
               state |-> project.state, reconTimers |-> <<>>,
               groupTimers |-> <<>>, res |-> <<>>]

Init == \E project \in InitialProjects : InitWith(project)

\* CodeEditor onChange={(val) => setHtml(val || "")} (line 856)
onChange(val) ==
    /\ val # html
    /\ CommitHtml(setHtml(val, history, historyIndex))
    /\ last' = Call("CodeChange", <<>>, <<>>)
    /\ UNCHANGED <<state, toast, toastTimers, focusKey, fieldGroups, repeatableKeys>>
    /\ UNCHANGED <<saveVars, handshakeVars>>
    /\ Sync(html' # html)

\* a Template change made now leaves at most MaxHistory entries in the log:
\* the entries up to the cursor and the new one
HistoryRoom == historyIndex + 1 < MaxHistory

\* onChange while the log has room for the change
CodeChange(val) ==
    /\ HistoryRoom
    /\ onChange(val)

\* handleGlobalThemeUpdate(oldVal, newVal) (lines 263-303)
ThemeUpdate(oldVal, newVal) ==
    \E next \in {RewrittenHtml(html, oldVal, newVal)} :
        /\ oldVal # <<>> /\ newVal # <<>> /\ oldVal # newVal
        /\ next # html => HistoryRoom
        /\ CommitHtml(setHtml(next, history, historyIndex))
        /\ last' = Call("ThemeUpdate", <<oldVal, newVal>>, <<>>)
        /\ UNCHANGED <<state, toast, toastTimers, focusKey, fieldGroups, repeatableKeys>>
        /\ UNCHANGED <<saveVars, handshakeVars>>
        /\ Sync(html' # html)

\* the color pickers of the theme panel (lines 948, 984) and the selects of
\* the other detected fonts (line 1032)
ThemePanel ==
    \/ \E color \in DetectedColors(html), value \in ColorInputs : ThemeUpdate(color, value)
    \/ /\ Len(DetectedFonts(html)) > 1
       /\ \E font \in SeqToSet(Tail(DetectedFonts(html))), value \in GOOGLE_FONTS :
             ThemeUpdate(font, value)

\* handlePageFontUpdate(newFont) (lines 247-261), from the select of the
\* page font (line 1003)
PageFontUpdate(newFont) ==
    \E next \in {PageFontHtml(html, newFont)} :
        /\ next # html => HistoryRoom
        /\ CommitHtml(setHtml(next, history, historyIndex))
        /\ last' = Call("PageFontUpdate", newFont, <<>>)
        /\ UNCHANGED <<state, toast, toastTimers, focusKey, fieldGroups, repeatableKeys>>
        /\ UNCHANGED <<saveVars, handshakeVars>>
        /\ Sync(html' # html)

\* the first keys of the form groups that are draggable (lines 1420-1438):
\* displayGroups is fieldGroups, or one group per key while fieldGroups is
\* empty, and then repeatableKeys is empty too
DragKeys ==
    {fieldGroups[i][1] : i \in {j \in 1..Len(fieldGroups) :
        Len(fieldGroups[j]) > 1 \/ fieldGroups[j][1] \in repeatableKeys}}

\* handleDrop -> onReorder -> handleSwapVariables(keyA, keyB) (lines 422-486,
\* 1335-1341); keyA = keyB is dropped by handleDrop and by the handler
Swap(keyA, keyB) ==
    LET r == SwapResult(html, keyA, keyB)
    IN  /\ keyA # keyB
        /\ last' = Call("Swap", <<keyA, keyB>>, r)
        /\ IF r.outcome = "notfound"
           \* console.warn and return
           THEN UNCHANGED <<html, history, historyIndex, reconTimers, groupTimers,
                            toast, toastTimers>>
           ELSE IF r.outcome = "noanchor"
           THEN /\ toastTimers < MaxToastTimers
                /\ showToast("Could not identify the list structure for these items.", <<>>)
                /\ UNCHANGED <<html, history, historyIndex, reconTimers, groupTimers>>
           ELSE IF r.outcome = "crosslist"
           THEN /\ toastTimers < MaxToastTimers
                /\ showToast("Items must be in the same list to reorder.", <<>>)
                /\ UNCHANGED <<html, history, historyIndex, reconTimers, groupTimers>>
           ELSE /\ HistoryRoom
                /\ CommitHtml(setHtml(r.html, history, historyIndex))
                /\ UNCHANGED <<toast, toastTimers>>
        /\ UNCHANGED <<state, focusKey, fieldGroups, repeatableKeys>>
        /\ UNCHANGED <<saveVars, handshakeVars>>
        /\ Sync(html' # html)

\* a form edit that restarts the 300ms timer
FormChange_Reschedule(key, value) ==
    /\ Get(state, key) # value
    /\ state' = Put(state, key, value)
    /\ last' = Call("FormChange", key, <<>>)
    /\ groupTimers' = Append(ClearTimeout(groupTimers), html)
    /\ UNCHANGED <<html, history, historyIndex, toast, toastTimers, focusKey,
                   fieldGroups, repeatableKeys, reconTimers>>
    /\ UNCHANGED <<saveVars, handshakeVars>>
    /\ Sync(TRUE)

\* FormEditor.handleChange: onStateChange({ ...state, [key]: value })
FormChange(key, value) ==
    /\ Get(state, key) # value
    /\ state' = Put(state, key, value)
    /\ last' = Call("FormChange", key, <<>>)
    /\ UNCHANGED <<html, history, historyIndex, toast, toastTimers, focusKey,
                   fieldGroups, repeatableKeys, reconTimers, groupTimers>>
    /\ UNCHANGED <<saveVars, handshakeVars>>
    /\ Sync(TRUE)

\* the 800ms timer i fires (lines 129-192)
ReconcileFire(i) ==
    LET pass == ReconcilePass(reconTimers[i], state)
    IN  /\ state' = pass.state
        /\ reconTimers' = SubSeq(reconTimers, 1, i - 1)
                          \o SubSeq(reconTimers, i + 1, Len(reconTimers))
        /\ last' = Call("Reconcile", <<>>,
                        [scanned |-> reconTimers[i], found |-> pass.found,
                         added |-> pass.added, removed |-> pass.removed,
                         moves |-> pass.moves])
        /\ UNCHANGED <<html, history, historyIndex, toast, toastTimers, focusKey,
                       fieldGroups, repeatableKeys, groupTimers>>
        /\ UNCHANGED <<saveVars, handshakeVars>>
        /\ Sync(state' # state)

\* the 300ms timer i fires (lines 492-569)
GroupFire(i) ==
    LET scan == scanGroups(groupTimers[i])
    IN  /\ fieldGroups' = scan.fieldGroups
        /\ repeatableKeys' = scan.repeatableKeys
        /\ groupTimers' = SubSeq(groupTimers, 1, i - 1)
                          \o SubSeq(groupTimers, i + 1, Len(groupTimers))
        /\ last' = Call("GroupInference", <<>>, [scanned |-> groupTimers[i]])
        /\ UNCHANGED <<html, state, history, historyIndex, toast, toastTimers,
                       focusKey, reconTimers>>
        /\ UNCHANGED <<saveVars, handshakeVars>>
        /\ Sync(FALSE)

\* handleDuplicateVariable(keyToDuplicate) (lines 573-668)
Duplicate(keyToDuplicate, rnd) ==
    LET r == DuplicateResult(html, state, keyToDuplicate, rnd)
    IN  /\ toastTimers < MaxToastTimers
        /\ r.outcome = "duplicated" => HistoryRoom
        /\ last' = Call("Duplicate", keyToDuplicate, r)
        /\ IF r.outcome = "notfound"
           THEN /\ showToast("Could not find element to duplicate.", <<>>)
                /\ UNCHANGED <<html, state, history, historyIndex, focusKey,
                               reconTimers, groupTimers>>
           ELSE IF r.outcome = "noanchor"
           THEN /\ showToast("This item is not part of a list.", <<>>)
                /\ UNCHANGED <<html, state, history, historyIndex, focusKey,
                               reconTimers, groupTimers>>
           ELSE /\ state' = r.state
                /\ CommitHtml(setHtml(r.html, history, historyIndex))
                /\ focusKey' = r.map[1].v
                /\ showToast("Duplicated item!", <<>>)
        /\ UNCHANGED <<fieldGroups, repeatableKeys>>
        /\ UNCHANGED <<saveVars, handshakeVars>>
        /\ Sync(r.outcome = "duplicated")

\* handleDeleteVariable(keyToDelete) (lines 670-715)
handleDeleteVariable(keyToDelete) ==
    LET onUndo == [prevHtml |-> html, prevState |-> state,
                   history |-> history, historyIndex |-> historyIndex]
    IN  /\ toastTimers < MaxToastTimers
        /\ state' = Del(state, keyToDelete)
        /\ CommitHtml(setHtml(DeleteHtml(html, keyToDelete), history, historyIndex))
        /\ showToast("Deleted variable", <<onUndo>>)
        /\ last' = Call("Delete", keyToDelete, [replaced |-> toast])
        /\ UNCHANGED <<focusKey, fieldGroups, repeatableKeys>>
        /\ UNCHANGED <<saveVars, handshakeVars>>
        /\ Sync(TRUE)

\* onDelete of the form (lines 874, 1373-1374) while the log has room
Delete(keyToDelete) ==
    /\ HistoryRoom
    /\ handleDeleteVariable(keyToDelete)

\* ToastUndo that restores the Template only
ToastUndo_HtmlOnly ==
    /\ toast # <<>>
    /\ toast[1].onUndo # <<>>
    /\ LET c == toast[1].onUndo[1]
       IN  /\ CommitHtml(setHtml(c.prevHtml, c.history, c.historyIndex))
           /\ last' = [op |-> "ToastUndo", key |-> <<>>, html |-> html, state |-> state,
                       reconTimers |-> reconTimers, groupTimers |-> groupTimers,
                       res |-> c]
    /\ toast' = <<>>
    /\ UNCHANGED <<state, toastTimers, focusKey, fieldGroups, repeatableKeys>>
    /\ UNCHANGED <<saveVars, handshakeVars>>
    /\ Sync(html' # html)

\* the Undo button of the toast: toast.onUndo (lines 709-714, 1067-1070)
ToastUndo ==
    /\ toast # <<>>
    /\ toast[1].onUndo # <<>>
    /\ LET c == toast[1].onUndo[1]
       IN  /\ CommitHtml(setHtml(c.prevHtml, c.history, c.historyIndex))
           /\ state' = c.prevState
           /\ last' = Call("ToastUndo", <<>>, c)
    /\ toast' = <<>>
    /\ UNCHANGED <<toastTimers, focusKey, fieldGroups, repeatableKeys>>
    /\ UNCHANGED <<saveVars, handshakeVars>>
    /\ Sync(TRUE)

\* setTimeout(() => setToast(null), 3000) fires (line 387)
ToastExpire ==
    /\ toastTimers > 0
    /\ toast' = <<>>
    /\ toastTimers' = toastTimers - 1
    /\ last' = Call("ToastExpire", <<>>, [toast |-> toast, pending |-> toastTimers])
    /\ UNCHANGED <<html, state, history, historyIndex, focusKey, fieldGroups,
                   repeatableKeys, reconTimers, groupTimers>>
    /\ UNCHANGED <<saveVars, handshakeVars>>
    /\ Sync(FALSE)

\* undo that moves the cursor and leaves the Template
Undo_CursorOnly ==
    /\ historyIndex > 0
    /\ historyIndex' = historyIndex - 1
    /\ last' = Call("Undo", <<>>, <<>>)
    /\ UNCHANGED <<html, reconTimers, groupTimers>>
    /\ UNCHANGED <<state, history, toast, toastTimers, focusKey, fieldGroups,
                   repeatableKeys>>
    /\ UNCHANGED <<saveVars, handshakeVars>>
    /\ Sync(FALSE)

\* undo (lines 53-59): setHtmlState(history[newIndex])
Undo ==
    /\ historyIndex > 0
    /\ historyIndex' = historyIndex - 1
    /\ html' = history[(historyIndex - 1) + 1]
    /\ reconTimers' = Debounce(reconTimers, history[(historyIndex - 1) + 1])
    /\ groupTimers' = Debounce(groupTimers, history[(historyIndex - 1) + 1])
    /\ last' = Call("Undo", <<>>, <<>>)
    /\ UNCHANGED <<state, history, toast, toastTimers, focusKey, fieldGroups,
                   repeatableKeys>>
    /\ UNCHANGED <<saveVars, handshakeVars>>
    /\ Sync(html' # html)

\* redo (lines 61-67)
Redo ==
    /\ historyIndex < Len(history) - 1
    /\ historyIndex' = historyIndex + 1
    /\ html' = history[(historyIndex + 1) + 1]
    /\ reconTimers' = Debounce(reconTimers, history[(historyIndex + 1) + 1])
    /\ groupTimers' = Debounce(groupTimers, history[(historyIndex + 1) + 1])
    /\ last' = Call("Redo", <<>>, <<>>)
    /\ UNCHANGED <<state, history, toast, toastTimers, focusKey, fieldGroups,
                   repeatableKeys>>
    /\ UNCHANGED <<saveVars, handshakeVars>>
    /\ Sync(html' # html)

\* onChange and handleDeleteVariable while the log holds at most MaxHistory
\* entries: the log they leave is one entry longer than the other handlers
\* can make it
LateChange(val) ==
    /\ Len(history) <= MaxHistory
    /\ onChange(val)

LateDelete(keyToDelete) ==
    /\ Len(history) <= MaxHistory
    /\ handleDeleteVariable(keyToDelete)

editorVars == <<html, state, history, historyIndex, toast, toastTimers,
                focusKey, fieldGroups, repeatableKeys, reconTimers, groupTimers>>
frameVars == <<srcDoc, frameLoaded, frameApp, toFrame, toHost>>

\* the iframe has loaded srcDoc and its script runs (Preview.tsx lines
\* 66-128): #app holds the content, IFRAME_LOADED is posted to the parent
\* and the message listener is registered
FrameLoad ==
    /\ ~frameLoaded
    /\ frameLoaded' = TRUE
    /\ frameApp' = srcDoc
    /\ toHost' = Append(toHost, [type |-> "IFRAME_LOADED"])
    /\ last' = Call("FrameLoad", <<>>, <<>>)
    /\ UNCHANGED <<editorVars, srcDoc, toFrame, saveVars, handshakeVars>>

\* handleMessage of the host receives the oldest message (lines 148-161)
handleMessage ==
    /\ toHost # <<>>
    /\ toHost' = Tail(toHost)
    /\ IF Head(toHost).type = "IFRAME_LOADED"
       THEN updateIframe(html, state)
       ELSE toFrame' = toFrame
    /\ last' = Call("handleMessage", <<>>, <<>>)
    /\ UNCHANGED <<editorVars, srcDoc, frameLoaded, frameApp, saveVars,
                   handshakeVars>>

\* the message listener of the iframe receives the oldest message (lines
\* 96-128)
FrameReceive ==
    /\ frameLoaded
    /\ toFrame # <<>>
    /\ toFrame' = Tail(toFrame)
    /\ frameApp' = IF Head(toFrame).type = "UPDATE_HTML"
                   THEN SyncApp(frameApp, Head(toFrame).html)
                   ELSE frameApp
    /\ last' = Call("FrameReceive", <<>>, <<>>)
    /\ UNCHANGED <<editorVars, srcDoc, frameLoaded, toHost, saveVars,
                   handshakeVars>>

\* the list s without its i-th element
Without(s, i) == SubSeq(s, 1, i - 1) \o SubSeq(s, i + 1, Len(s))

\* handleSave up to its await (lines 81-89), from the Save button or from
\* Ctrl+S (lines 104-108; the shortcut does not look at isSaving).  The
\* editor is opened with a projectId.
handleSave ==
    /\ Len(saving) + saveTimers < MaxSaving
    /\ isSaving' = TRUE
    /\ saving' = Append(saving, [html |-> html, state |-> state])
    /\ last' = Call("handleSave", <<>>, <<>>)
    /\ UNCHANGED <<lastSaved, saveTimers, editorVars, frameVars, handshakeVars>>

\* the i-th awaited setDoc resolves: the rest of the try block (lines 91-94)
SaveResolve(i) ==
    /\ lastSaved' = TRUE
    /\ saveTimers' = saveTimers + 1
    /\ saving' = Without(saving, i)
    /\ last' = Call("SaveResolve", <<>>, [record |-> saving[i], history |-> history,
                                          historyIndex |-> historyIndex, alert |-> <<>>])
    /\ UNCHANGED <<isSaving, editorVars, frameVars, handshakeVars>>

\* SaveReject that leaves the flag as it is
SaveReject_StaysSaving(i) ==
    /\ saving' = Without(saving, i)
    /\ last' = Call("SaveReject", <<>>, [record |-> saving[i], history |-> history,
                                         historyIndex |-> historyIndex,
                                         alert |-> <<"Failed to save changes.">>])
    /\ UNCHANGED <<isSaving, lastSaved, saveTimers, editorVars, frameVars,
                   handshakeVars>>

\* the i-th awaited setDoc rejects: the catch block (lines 95-99)
SaveReject(i) ==
    /\ isSaving' = FALSE
    /\ saving' = Without(saving, i)
    /\ last' = Call("SaveReject", <<>>, [record |-> saving[i], history |-> history,
                                         historyIndex |-> historyIndex,
                                         alert |-> <<"Failed to save changes.">>])
    /\ UNCHANGED <<lastSaved, saveTimers, editorVars, frameVars, handshakeVars>>

\* setTimeout(() => setIsSaving(false), 800) fires (line 94)
SaveTimerFire ==
    /\ saveTimers > 0
    /\ saveTimers' = saveTimers - 1
    /\ isSaving' = FALSE
    /\ last' = Call("SaveTimerFire", <<>>, <<>>)
    /\ UNCHANGED <<lastSaved, saving, editorVars, frameVars, handshakeVars>>

\* the textarea of the blueprint page (lines 1235-1240)
setJsonInput(value) ==
    /\ value # jsonInput
    /\ jsonInput' = value
    /\ error' = <<>>
    /\ last' = Call("setJsonInput", value, <<>>)
    /\ UNCHANGED <<completed, editorVars, frameVars, saveVars>>

\* handleInject (lines 1143-1183): setError(null), then the try block and
\* its catch
handleInject ==
    LET r == InjectResult(jsonInput)
    IN  /\ r.call # <<>> => Len(completed) < MaxCompleted
        /\ error' = r.message
        /\ completed' = completed \o r.call
        /\ last' = Call("handleInject", jsonInput, [before |-> completed])
        /\ UNCHANGED <<jsonInput, editorVars, frameVars, saveVars>>

Next ==
    \/ \E val \in CodeEdits : CodeChange(val)
    \/ \E key \in KeySet(state) \cap FormEditKeys, value \in FormValues :
         FormChange(key, value)
    \/ \E i \in 1..Len(reconTimers) : ReconcileFire(i)
    \/ \E i \in 1..Len(groupTimers) : GroupFire(i)
    \/ \E key \in FormKeys :
         \E rnd \in [1..DeepKeyCount(html, key) -> 0..MaxSuffix] : Duplicate(key, rnd)
    \/ \E key \in FormKeys : Delete(key)
    \/ \E keyA \in DragKeys, keyB \in DragKeys : Swap(keyA, keyB)
    \/ ThemePanel
    \/ \E font \in PageFonts : PageFontUpdate(font)
    \/ ToastUndo
    \/ ToastExpire
    \/ Undo
    \/ Redo
    \/ FrameLoad
    \/ handleMessage
    \/ FrameReceive
    \/ \E value \in InjectTexts : setJsonInput(value)
    \/ handleInject
    \/ handleSave
    \/ \E i \in 1..Len(saving) : SaveResolve(i)
    \/ \E i \in 1..Len(saving) : SaveReject(i)
    \/ SaveTimerFire

\* every handler of the editor; the specifications below restrict Next to
\* the handlers of one concern
Spec == Init /\ [][Next]_vars

\* the code editor, the form and the two debounced passes, with undo/redo
NextEdit ==
    \/ \E val \in CodeEdits : CodeChange(val)
    \/ \E key \in KeySet(state) \cap FormEditKeys, value \in FormValues :
         FormChange(key, value)
    \/ \E i \in 1..Len(reconTimers) : ReconcileFire(i)
    \/ \E i \in 1..Len(groupTimers) : GroupFire(i)
    \/ Undo
    \/ Redo

SpecEdit == Init /\ [][NextEdit]_vars

\* the structural operations of the form, with the editor and the reconciler
NextStruct ==
    \/ \E val \in CodeEdits : CodeChange(val)
    \/ \E i \in 1..Len(reconTimers) : ReconcileFire(i)
    \/ \E key \in FormKeys :
         \E rnd \in [1..DeepKeyCount(html, key) -> 0..MaxSuffix] : Duplicate(key, rnd)
    \/ \E key \in FormKeys : Delete(key)
    \/ ToastUndo
    \/ ToastExpire

SpecStruct == Init /\ [][NextStruct]_vars

\* the drag-and-drop reorder of the form groups, with the group inference
\* that makes groups draggable and the edits that make them stale
InitSwap == \E project \in SwapProjects : InitWith(project)

NextSwap ==
    \/ \E val \in SwapEdits : CodeChange(val)
    \/ \E i \in 1..Len(groupTimers) : GroupFire(i)
    \/ \E keyA \in DragKeys, keyB \in DragKeys : Swap(keyA, keyB)
    \/ ToastExpire

SpecSwap == InitSwap /\ [][NextSwap]_vars

\* the preview: edits of the Template and of State, the reconciler, and the
\* messages between the host and the iframe
InitPreview == \E project \in PreviewProjects : InitWith(project)

NextPreview ==
    \/ \E val \in PreviewEdits : CodeChange(val)
    \/ \E key \in KeySet(state) \cap FormEditKeys, value \in PreviewValues :
         FormChange(key, value)
    \/ \E i \in 1..Len(reconTimers) : ReconcileFire(i)
    \/ FrameLoad
    \/ handleMessage
    \/ FrameReceive

SpecPreview == InitPreview /\ [][NextPreview]_vars

\* the history log on its own: Template changes without the MaxHistory
\* bound (the log is bounded by HISTORY_LIMIT), undo and redo
InitHistory == \E project \in HistoryProjects : InitWith(project)

NextHistory ==
    \/ \E val \in HistoryEdits : onChange(val)
    \/ Undo
    \/ Redo

SpecHistory == InitHistory /\ [][NextHistory]_vars

\* the blueprint page: texts pasted into the textarea and the Inject button;
\* the editor is not open and its variables keep their values
InitInject == \E project \in HistoryProjects : InitWith(project)

NextInject ==
    \/ \E value \in InjectTexts : setJsonInput(value)
    \/ handleInject

SpecInject == InitInject /\ [][NextInject]_vars

\* saving: edits of the Template and of State while setDoc calls are awaited
NextSave ==
    \/ \E val \in CodeEdits : CodeChange(val)
    \/ \E key \in KeySet(state) \cap FormEditKeys, value \in FormValues :
         FormChange(key, value)
    \/ Undo
    \/ Redo
    \/ handleSave
    \/ \E i \in 1..Len(saving) : SaveResolve(i)
    \/ \E i \in 1..Len(saving) : SaveReject(i)
    \/ SaveTimerFire

SpecSave == Init /\ [][NextSave]_vars

\* Group Inference and the scanner: Templates with lists, tables and cards
\* are opened and edited, and the 300ms and 800ms timers fire
InitGroups == \E project \in GroupProjects : InitWith(project)

NextGroups ==
    \/ \E val \in GroupEdits : CodeChange(val)
    \/ \E i \in 1..Len(groupTimers) : GroupFire(i)
    \/ \E i \in 1..Len(reconTimers) : ReconcileFire(i)

SpecGroups == InitGroups /\ [][NextGroups]_vars

\* the theme panel, with the editor and the debounce timers
InitTheme == \E project \in ThemeProjects : InitWith(project)

NextTheme ==
    \/ \E val \in ThemeEdits : CodeChange(val)
    \/ ThemePanel
    \/ \E i \in 1..Len(reconTimers) : ReconcileFire(i)
    \/ \E i \in 1..Len(groupTimers) : GroupFire(i)
    \/ Undo

SpecTheme == InitTheme /\ [][NextTheme]_vars

\* keys that are removed from the Template and added to it, with the form
InitKeys == \E project \in KeyProjects : InitWith(project)

NextKeys ==
    \/ \E val \in KeyEdits : CodeChange(val)
    \/ \E key \in KeySet(state) \cap FormEditKeys, value \in FormValues :
         FormChange(key, value)
    \/ \E i \in 1..Len(reconTimers) : ReconcileFire(i)
    \/ \E i \in 1..Len(groupTimers) : GroupFire(i)
    \/ Undo
    \/ Redo

SpecKeys == InitKeys /\ [][NextKeys]_vars

\* the cursor of the history log: the code editor, Duplicate (one suffix
\* drawn), Delete and its undo, a color of the theme panel set to red, and
\* undo and redo
InitCursor == \E project \in CursorProjects : InitWith(project)

NextCursor ==
    \/ \E val \in CursorEdits : LateChange(val)
    \/ \E key \in FormKeys :
         \E rnd \in [1..DeepKeyCount(html, key) -> {0}] : Duplicate(key, rnd)
    \/ \E key \in FormKeys : LateDelete(key)
    \/ \E color \in DetectedColors(html) : ThemeUpdate(color, cRed)
    \/ ToastUndo
    \/ Undo
    \/ Redo

SpecCursor == InitCursor /\ [][NextCursor]_vars

\* Duplicate on its own, with the editor: the clone and the focus key
InitClone == \E project \in CloneProjects : InitWith(project)

NextClone ==
    \/ \E val \in CloneEdits : CodeChange(val)
    \/ \E key \in FormKeys :
         \E rnd \in [1..DeepKeyCount(html, key) -> 0..MaxSuffix] : Duplicate(key, rnd)
    \/ \E i \in 1..Len(reconTimers) : ReconcileFire(i)
    \/ ToastExpire

SpecClone == InitClone /\ [][NextClone]_vars

\* the page font, with the editor and the history log
InitFont == \E project \in FontProjects : InitWith(project)

NextFont ==
    \/ \E val \in FontEdits : CodeChange(val)
    \/ \E newFont \in PageFonts : PageFontUpdate(newFont)
    \/ Undo
    \/ Redo

SpecFont == InitFont /\ [][NextFont]_vars

----------------------------------------------------------------------------
(* Properties of the State Reconciler *)

\* the keys of the current Template, and the diff a pass started from
Found == SeqToSet(FoundKeys(html))
AddedBefore == Found \ KeySet(last.state)
RemovedBefore == KeySet(last.state) \ Found
CustomBefore(k) == Get(last.state, k) # DefaultValue(k)
MoveTargets == {last.res.moves[i][1] : i \in 1..Len(last.res.moves)}
AfterPass == last.op = "Reconcile"

\* C1: after every completed reconciliation pass every placeholder key of
\* the current Template has a State entry, and a key that had no entry
\* before the pass and was not the target of a rename migration has the
\* value [key].
C1_FoundKeysHaveEntries ==
    AfterPass =>
        /\ \A k \in Found : Has(state, k)
        /\ \A k \in AddedBefore :
              k \notin MoveTargets => Get(state, k) = DefaultValue(k)

\* a pass that created a default entry for a key that was not migrated
C1_Witness ==
    /\ AfterPass
    /\ \E k \in AddedBefore : k \notin MoveTargets /\ Get(state, k) = DefaultValue(k)
    /\ MoveTargets # {}

\* C2: after a reconciliation pass State holds no key that is absent from
\* the Template and whose value equals its own default [key].
C2_NoStaleDefaults ==
    AfterPass =>
        \A k \in KeySet(state) : ~(k \notin Found /\ Get(state, k) = DefaultValue(k))

\* a pass that deleted a stale key with its default value
C2_Witness ==
    /\ AfterPass
    /\ \E k \in RemovedBefore : ~CustomBefore(k) /\ ~Has(state, k)

\* C3: a reconciliation pass deletes a State entry whose value differs from
\* [key] only by moving the value to a newly added key; when no key was
\* added, every customized key stays in State with its value.
C3_CustomizedKept ==
    AfterPass =>
        /\ \A k \in KeySet(last.state) :
              CustomBefore(k) =>
                 \/ Has(state, k) /\ Get(state, k) = Get(last.state, k)
                 \/ \E n \in AddedBefore :
                       ~Has(state, k) /\ Get(state, n) = Get(last.state, k)
        /\ AddedBefore = {} =>
              \A k \in KeySet(last.state) :
                 CustomBefore(k) => Has(state, k) /\ Get(state, k) = Get(last.state, k)

\* a pass over a Template that lost a customized key and gained no key
C3_Witness ==
    /\ AfterPass
    /\ AddedBefore = {}
    /\ \E k \in RemovedBefore : CustomBefore(k) /\ Get(state, k) = Get(last.state, k)

\* the State of the example, as a set of entries
AsEntries(obj) == {obj[i] : i \in 1..Len(obj)}
ExampleBefore == {Entry(kLink1, vCustom), Entry(kTitle, DefaultValue(kTitle))}
ExampleAfter == {Entry(kLink3, vCustom), Entry(kTitle, DefaultValue(kTitle))}
ExampleCase ==
    /\ AfterPass
    /\ AsEntries(last.state) = ExampleBefore
    /\ Found = {kLink3, kTitle}

\* C4 as stated: in the example the pass yields {link3: "custom", title:
\* "[title]"}, and whenever exactly one customized key was removed and one
\* key was added, the value moves to the added key and the old key is gone.
C4_AsStated ==
    /\ ExampleCase => AsEntries(state) = ExampleAfter
    /\ AfterPass =>
          \A k \in RemovedBefore, n \in AddedBefore :
             ( /\ {r \in RemovedBefore : CustomBefore(r)} = {k}
               /\ AddedBefore = {n} )
             => ~Has(state, k) /\ Get(state, n) = Get(last.state, k)

\* C4 (amended): in the example the pass yields {link3: "custom", title:
\* "[title]"}, and whenever exactly one key was removed, that key was
\* customized and exactly one key was added, the value moves to the added key
\* and the old key is gone.
C4_RenameMigration ==
    /\ ExampleCase => AsEntries(state) = ExampleAfter
    /\ AfterPass =>
          \A k \in RemovedBefore, n \in AddedBefore :
             ( /\ RemovedBefore = {k}
               /\ CustomBefore(k)
               /\ AddedBefore = {n} )
             => ~Has(state, k) /\ Get(state, n) = Get(last.state, k)

\* the pass of the example has run
C4_Witness == ExampleCase /\ AsEntries(state) = ExampleAfter

\* C5: in one pass each removed key is the migration source of at most one
\* added key, the source of a migration is a removed key whose value is
\* not its default, and its value is on the added key afterwards.
C5_SourceConsumedOnce ==
    AfterPass =>
        LET moves == last.res.moves
        IN  /\ \A i, j \in 1..Len(moves) : moves[i][2] = moves[j][2] => i = j
            /\ \A i \in 1..Len(moves) :
                  /\ moves[i][2] \in RemovedBefore
                  /\ CustomBefore(moves[i][2])
                  /\ moves[i][1] \in AddedBefore
            /\ \A i \in 1..Len(moves) :
                  /\ ~Has(state, moves[i][2])
                  /\ Get(state, moves[i][1]) = Get(last.state, moves[i][2])
            /\ Cardinality(MoveTargets)
                  = Cardinality({k \in RemovedBefore : CustomBefore(k) /\ ~Has(state, k)})

\* a pass with one migration and a second added key that could have taken it
C5_Witness ==
    /\ AfterPass
    /\ Len(last.res.moves) = 1
    /\ Cardinality(AddedBefore) >= 2

----------------------------------------------------------------------------
(* Properties of the debounce timers *)

ChangedHtml == last.op \in {"CodeChange", "Undo", "Redo", "Delete", "Duplicate",
                            "ToastUndo"} /\ html # last.html

\* C6: both debounced passes are cancel-and-restart: at most one timer of
\* each kind is pending and it holds the current Template, a pass scans the
\* Template that is current when it runs, and after a pass no further pass
\* is pending until the Template changes again.
C6_CancelAndRestart ==
    /\ Len(reconTimers) <= 1
    /\ Len(groupTimers) <= 1
    /\ \A i \in 1..Len(reconTimers) : reconTimers[i] = html
    /\ \A i \in 1..Len(groupTimers) : groupTimers[i] = html
    /\ last.op \in {"Reconcile", "GroupInference"} => last.res.scanned = html
    /\ last.op = "Reconcile" => reconTimers = <<>>
    /\ last.op = "GroupInference" => groupTimers = <<>>
    /\ ChangedHtml => reconTimers = <<html>> /\ groupTimers = <<html>>

\* a Template change that arrived while both timers were pending for an
\* earlier Template
C6_Witness ==
    /\ ChangedHtml
    /\ last.reconTimers = <<last.html>>
    /\ last.groupTimers = <<last.html>>
    /\ reconTimers = <<html>>
    /\ groupTimers = <<html>>

----------------------------------------------------------------------------
(* Properties of Duplicate and Delete *)

Duplicated == last.op = "Duplicate" /\ last.res.outcome = "duplicated"
NewKeys == {last.res.map[i].v : i \in 1..Len(last.res.map)}

\* C7: Duplicate(key) never produces a new key that is already a key of the
\* Template or of State, and never gives two distinct keys of the cloned
\* anchor the same new key.
C7_FreshKeys ==
    Duplicated =>
        /\ NewKeys \cap (SeqToSet(FoundKeys(last.html)) \cup KeySet(last.state)) = {}
        /\ \A i, j \in 1..Len(last.res.map) :
              last.res.map[i].v = last.res.map[j].v => i = j

\* C8: after a successful Duplicate(key) every new key has the State value
\* "" and the State entries of all keys that existed before are unchanged.
C8_BlankNewKeysOnly ==
    Duplicated =>
        /\ \A n \in NewKeys : Get(state, n) = <<>>
        /\ \A k \in KeySet(last.state) : Get(state, k) = Get(last.state, k)

FailureNotices == {"Could not find element to duplicate.",
                   "This item is not part of a list."}

\* does Duplicate(key) on the Template tpl find no node, or no anchor
NoNodeOrAnchor(tpl, key) ==
    LET node == findElementWithKey(tpl.body, key)
    IN  node = <<>> \/ getRepeatableParent(tpl.body, node[1]) = <<>>

\* C9: when no node contains the key, or the node has no repeatable anchor,
\* Duplicate(key) changes neither the Template nor State and shows a notice.
C9_DuplicateFailure ==
    (last.op = "Duplicate" /\ NoNodeOrAnchor(last.html, last.key)) =>
        /\ html = last.html
        /\ state = last.state
        /\ toast # <<>>
        /\ toast[1].message \in FailureNotices

\* a Duplicate of a key whose node has no anchor
C9_Witness ==
    /\ last.op = "Duplicate"
    /\ findElementWithKey(last.html.body, last.key) # <<>>
    /\ NoNodeOrAnchor(last.html, last.key)
    /\ toast # <<>>

\* C10: Delete(key) removes the key's State entry and offers an undo that
\* holds the Template and State of the moment Delete was invoked; accepting
\* the undo sets both the Template and State to that snapshot in one step.
C10_DeleteUndo ==
    /\ last.op = "Delete" =>
          /\ ~Has(state, last.key)
          /\ toast # <<>>
          /\ toast[1].onUndo # <<>>
          /\ toast[1].onUndo[1].prevHtml = last.html
          /\ toast[1].onUndo[1].prevState = last.state
    /\ last.op = "ToastUndo" =>
          /\ html = last.res.prevHtml
          /\ state = last.res.prevState
          /\ toast = <<>>

\* an accepted undo that changed both the Template and State back
C10_Witness ==
    /\ last.op = "ToastUndo"
    /\ html # last.html
    /\ state # last.state
    /\ ~Has(last.state, kA) /\ Has(state, kA)

----------------------------------------------------------------------------
(* Properties of the toast *)

\* the toast holds an undo offer
OffersUndo(t) == t # <<>> /\ t[1].onUndo # <<>>

\* C11: the undo offer of a Delete stays on display until its own 3000ms
\* timer fires, unless a newer notice replaces it: a timer that dismisses an
\* undo offer is never the timer of an earlier notice (timers fire oldest
\* first, and the offer's own timer is the newest of those pending).
C11_UndoWindow ==
    (last.op = "ToastExpire" /\ OffersUndo(last.res.toast)) =>
        last.res.pending = 1

\* C12: the toast is a single slot: a Delete puts its own snapshot in the
\* slot whatever was there, and an undo offer on display is never changed
\* except by a Delete, so the offer is that of the most recent Delete.
C12_SingleUndoSlot ==
    [][ /\ Len(toast') <= 1
        /\ last'.op = "Delete" =>
              /\ OffersUndo(toast')
              /\ toast'[1].onUndo[1].prevHtml = html
              /\ toast'[1].onUndo[1].prevState = state
        /\ OffersUndo(toast') =>
              \/ toast' = toast
              \/ last'.op = "Delete"
      ]_vars

\* a second Delete issued while the offer of a first Delete was on display
C12_Witness ==
    /\ last.op = "Delete"
    /\ OffersUndo(last.res.replaced)
    /\ OffersUndo(toast)
    /\ toast # last.res.replaced
    /\ toast[1].onUndo[1].prevState = last.state

----------------------------------------------------------------------------
(* Properties of Swap *)

\* the anchor of the first node that holds key k: <<path>>, or <<>>
AnchorOf(tpl, k) ==
    LET node == findElementWithKey(tpl.body, k)
    IN  IF node = <<>> THEN <<>> ELSE getRepeatableParent(tpl.body, node[1])

BothAnchored(tpl, keys) ==
    AnchorOf(tpl, keys[1]) # <<>> /\ AnchorOf(tpl, keys[2]) # <<>>

DifferentParents(tpl, keys) ==
    /\ BothAnchored(tpl, keys)
    /\ ParentPath(AnchorOf(tpl, keys[1])[1]) # ParentPath(AnchorOf(tpl, keys[2])[1])

\* C13: Swap(keyA, keyB) whose two anchors have different parent elements
\* leaves the Template, the history log and its cursor unchanged and shows
\* the rejection notice.
C13_CrossListRejected ==
    [][ (last'.op = "Swap" /\ DifferentParents(html, last'.key)) =>
            /\ html' = html
            /\ history' = history
            /\ historyIndex' = historyIndex
            /\ toast' = <<[message |-> "Items must be in the same list to reorder.",
                           onUndo |-> <<>>]>>
            /\ toastTimers' = toastTimers + 1
      ]_vars

\* a Swap across the two lists was rejected
C13_Witness ==
    /\ last.op = "Swap"
    /\ DifferentParents(last.html, last.key)
    /\ last.key = <<kTitle, kB>>
    /\ toast # <<>>
    /\ html = last.html

\* a Swap of two distinct anchors under one parent
SwapApplies ==
    /\ last.op = "Swap"
    /\ BothAnchored(last.html, last.key)
    /\ ~DifferentParents(last.html, last.key)
    /\ AnchorOf(last.html, last.key[1]) # AnchorOf(last.html, last.key[2])

SwapParent == ParentPath(AnchorOf(last.html, last.key[1])[1])
SwapAnchorA == NodeAt(last.html.body, AnchorOf(last.html, last.key[1])[1])
SwapAnchorB == NodeAt(last.html.body, AnchorOf(last.html, last.key[2])[1])
\* parent.children before and after the Swap
ChildrenBefore ==
    SelectSeq(NodeAt(last.html.body, SwapParent).kids, LAMBDA n : n.t = "elem")
ChildrenAfter ==
    SelectSeq(NodeAt(html.body, SwapParent).kids, LAMBDA n : n.t = "elem")
Pos(seq, x) == CHOOSE i \in 1..Len(seq) : seq[i] = x
Others(seq) == SelectSeq(seq, LAMBDA n : n \notin {SwapAnchorA, SwapAnchorB})

\* C14: a successful Swap(keyA, keyB) reverses the relative order of the two
\* anchors under their common parent, keeps the relative order of the other
\* element children, keeps the same children, renames no key and leaves
\* State unchanged.
C14_SwapReordersOnly ==
    SwapApplies =>
        /\ SeqToSet(ChildrenAfter) = SeqToSet(ChildrenBefore)
        /\ Len(ChildrenAfter) = Len(ChildrenBefore)
        /\ (Pos(ChildrenBefore, SwapAnchorA) < Pos(ChildrenBefore, SwapAnchorB))
             <=> (Pos(ChildrenAfter, SwapAnchorA) > Pos(ChildrenAfter, SwapAnchorB))
        /\ Others(ChildrenAfter) = Others(ChildrenBefore)
        /\ SeqToSet(FoundKeys(html)) = SeqToSet(FoundKeys(last.html))
        /\ state = last.state

\* Swaps of the first and third item of a list, in both directions
C14_Witness ==
    /\ SwapApplies
    /\ last.key \in {<<kA, kA1>>, <<kA1, kA>>}
    /\ html # last.html
    /\ Len(Others(ChildrenAfter)) >= 2

LookupNotices == FailureNotices
                 \cup {"Items must be in the same list to reorder.",
                       "Could not identify the list structure for these items."}

\* C15: when Swap or Duplicate finds no node for a key, no anchor, or (Swap)
\* anchors under different parents, the Template and State are unchanged and
\* a notice is on display.
C15_LookupFailureNotice ==
    ( \/ last.op = "Swap" /\ ( \/ ~BothAnchored(last.html, last.key)
                                \/ DifferentParents(last.html, last.key) )
      \/ last.op = "Duplicate" /\ NoNodeOrAnchor(last.html, last.key) ) =>
        /\ html = last.html
        /\ state = last.state
        /\ toast # <<>>
        /\ toast[1].message \in LookupNotices

----------------------------------------------------------------------------
(* Properties of the history log *)

\* C16: the history log never holds more than 100 entries and its cursor
\* is inside it; a change made with 100 entries and the cursor on the last
\* one drops the oldest entry and appends the new Template.
C16_HistoryBounded ==
    [][ /\ Len(history') <= HISTORY_LIMIT
        /\ historyIndex' \in 0..(Len(history') - 1)
        /\ ( /\ last'.op = "CodeChange"
             /\ Len(history) = HISTORY_LIMIT
             /\ historyIndex = HISTORY_LIMIT - 1 ) =>
               /\ history' = Append(Tail(history), html')
               /\ historyIndex' = HISTORY_LIMIT - 1
      ]_vars

\* the log is full and the Template the editor was opened with, which was
\* its first entry, has been dropped
C16_Witness ==
    /\ Len(history) = HISTORY_LIMIT
    /\ historyIndex = HISTORY_LIMIT - 1
    /\ last.op = "CodeChange"
    /\ \A i \in 1..Len(history) : history[i] \in HistoryEdits

----------------------------------------------------------------------------
(* Properties of the preview *)

\* the markup s holds a {{key}} token, white space inside the braces allowed
HasBraceToken(s, key) == \E i \in 1..Len(s) : MatchEnd(s, i, key) # 0

\* the keys the Template spells with braces
BraceKeys(tpl) == SeqToSet(KeysOfTokens(InnerTokens(tpl.body, <<>>), BraceRegexSpellings))

\* C17: the substitution pass over the current Template and State yields
\* markup with no {{key}} token of a key that State has, whatever the
\* values are.
C17_NoTokenOfStateKey ==
    \A k \in KeySet(state) : ~HasBraceToken(getProcessedHtml(html, state), k)

\* C18: in the substitution pass a {{key}} token whose key State does not
\* have is rendered as the empty string: no token of that key is left.
C18_AbsentKeyEmpty ==
    \A k \in BraceKeys(html) \ KeySet(state) :
        ~HasBraceToken(getProcessedHtml(html, state), k)

\* C19: when the host receives IFRAME_LOADED it posts exactly one
\* UPDATE_HTML, which carries the substitution of the Template and State of
\* that moment, and changes neither.
C19_LoadedPush ==
    [][ ( /\ last'.op = "handleMessage"
          /\ toHost # <<>>
          /\ Head(toHost).type = "IFRAME_LOADED" ) =>
            /\ toFrame' = Append(toFrame, UpdateHtml(getProcessedHtml(html, state)))
            /\ html' = html
            /\ state' = state
      ]_vars

\* the host has answered IFRAME_LOADED after the Template or State had
\* changed since the content of srcDoc was computed
C19_Witness ==
    /\ last.op = "handleMessage"
    /\ toFrame # <<>>
    /\ toFrame[Len(toFrame)] = UpdateHtml(getProcessedHtml(html, state))
    /\ getProcessedHtml(html, state) # srcDoc

\* no message is in flight in either direction and the iframe has loaded
Quiescent == frameLoaded /\ toFrame = <<>> /\ toHost = <<>>

\* C20: every UPDATE_HTML posted carries the substitution of the Template
\* and State of the moment it is posted, and once the iframe has loaded and
\* every message has been delivered in order, the content of the iframe is
\* the substitution of the current Template and State.
C20_PreviewConverges ==
    [][ /\ Len(toFrame') > Len(toFrame) =>
              toFrame' = Append(toFrame, UpdateHtml(getProcessedHtml(html', state')))
        /\ Quiescent' => frameApp' = getProcessedHtml(html', state')
      ]_vars

----------------------------------------------------------------------------
(* Properties of the blueprint ingestion *)

\* C21: blueprint ingestion rejects a text that cannot be parsed as JSON,
\* that has neither an htmlLines array nor an html string, or that lacks
\* state: an error message is set and onComplete is not called; on a valid
\* text onComplete is called exactly once, with htmlLines joined by newlines
\* (or html) and the given state.
C21_IngestionChecked ==
    last.op = "handleInject" =>
        \A c \in InjectCases :
            c.text = last.key =>
                IF c.kind = "valid"
                THEN completed = Append(last.res.before,
                                        [html |-> c.html, state |-> c.state])
                ELSE completed = last.res.before /\ error # <<>>

\* a blueprint without state was rejected after a fenced one was accepted
C21_Witness ==
    /\ last.op = "handleInject"
    /\ \E c \in InjectCases : c.kind = "nostate" /\ c.text = last.key
    /\ error = <<"Missing 'state' key in JSON.">>
    /\ completed = <<[html |-> lineTitle \o <<"\n">> \o lineClass,
                      state |-> stateTitle]>>

----------------------------------------------------------------------------
(* Properties of saving *)

\* C22: a failed save leaves the in-memory Template, State and history
\* unchanged and returns the saving flag to false, so that a later save can
\* be started.
C22_FailedSaveKeeps ==
    last.op = "SaveReject" =>
        /\ html = last.html
        /\ state = last.state
        /\ history = last.res.history
        /\ historyIndex = last.res.historyIndex
        /\ ~isSaving
        /\ ENABLED handleSave

\* a save failed after the Template and State it was writing were edited
C22_Witness ==
    /\ last.op = "SaveReject"
    /\ last.res.record.html # html
    /\ last.res.record.state # state
    /\ Len(history) > 1

----------------------------------------------------------------------------
(* Properties of Group Inference *)

\* the Template a Group Inference pass scanned
Scanned == last.res.scanned
AfterInference == last.op = "GroupInference"

\* the list items of a Template, in document order
ListItems(tpl) == SelectSeq(Walk(tpl.body), LAMBDA p : NodeAt(tpl.body, p).tag = "LI")
\* the placeholder occurrences a node contains: in its own attributes and
\* in its descendants
KeysAt(tpl, p) ==
    KeysOfTokens(OwnTokens(NodeAt(tpl.body, p)) \o InnerTokens(tpl.body, p),
                 ScanSpellings)
\* every list item contains one placeholder, the keys are distinct and the
\* Template has no other placeholder
OneKeyPerItem(tpl) ==
    LET items == ListItems(tpl)
    IN  /\ items # <<>>
        /\ \A i \in 1..Len(items) : Len(KeysAt(tpl, items[i])) = 1
        /\ \A i, j \in 1..Len(items) :
              i # j => KeysAt(tpl, items[i]) # KeysAt(tpl, items[j])
        /\ Len(KeysOfTokens(InnerTokens(tpl.body, <<>>), ScanSpellings)) = Len(items)

\* C23: for a Template with n list items that each contain one distinct
\* placeholder, Group Inference returns n groups of size 1, one per list
\* item, in document order, and every one of those keys is in the
\* repeatable-keys set.
C23_ListItemGroups ==
    (AfterInference /\ OneKeyPerItem(Scanned)) =>
        LET items == ListItems(Scanned)
        IN  /\ fieldGroups = [i \in 1..Len(items) |-> KeysAt(Scanned, items[i])]
            /\ \A i \in 1..Len(items) : KeysAt(Scanned, items[i])[1] \in repeatableKeys

\* the ancestors of the node at path p (the text node that holds the
\* occurrence, or the element that carries the attribute), nearest first
Ancestors(p) == [i \in 1..Len(p) |-> SubSeq(p, 1, Len(p) - i)]
\* is the i-th ancestor below the boundary tags
BelowBoundary(root, p, i) ==
    \A j \in 1..i : NodeAt(root, Ancestors(p)[j]).tag \notin StopTags
HasSameTagSibling(root, q) ==
    \E i \in ElementChildren(root, ParentPath(q)) :
        /\ i # LastIndex(q)
        /\ NodeAt(root, Append(ParentPath(q), i)).tag = NodeAt(root, q).tag
IsAnchor(root, q) ==
    \/ NodeAt(root, q).tag \in {"LI", "TR"}
    \/ /\ NodeAt(root, q).tag \in {"DIV", "ARTICLE", "SECTION"}
       /\ HasSameTagSibling(root, q)
\* <<the nearest ancestor that is an anchor>>, or <<>>
NearestAnchor(root, p) ==
    LET up == Ancestors(p)
        ok == {i \in 1..Len(up) : BelowBoundary(root, p, i) /\ IsAnchor(root, up[i])}
    IN  IF ok = {} THEN <<>>
        ELSE <<up[CHOOSE i \in ok : \A j \in ok : i <= j]>>
IsGroup(group) == \E g \in 1..Len(fieldGroups) : fieldGroups[g] = group

----------------------------------------------------------------------------
(* Properties of the scanner *)

\* the Template with the spelling of one token replaced
WithSpelling(tpl, path, a, n, sp) ==
    LET node == NodeAt(tpl.body, path)
        new == IF node.t = "text"
               THEN [node EXCEPT !.text[n] = Tok(sp, @.k)]
               ELSE [node EXCEPT !.attrs[a].value[n] = Tok(sp, @.k)]
    IN  [tpl EXCEPT !.body = ReplaceAt(tpl.body, path, <<new>>)]

\* the Templates that differ from tpl in the spelling of one placeholder
\* occurrence, and tpl itself
Respelled(tpl) ==
    LET walk == Walk(tpl.body)
        InText == {<<p, 0, n>> : p \in {q \in SeqToSet(walk) : NodeAt(tpl.body, q).t = "text"},
                                 n \in 1..5}
        InAttr == {<<p, a, n>> : p \in {q \in SeqToSet(walk) : NodeAt(tpl.body, q).t = "elem"},
                                 a \in 1..2, n \in 1..2}
        IsToken(o) ==
            LET node == NodeAt(tpl.body, o[1])
            IN  IF node.t = "text"
                THEN o[3] <= Len(node.text) /\ node.text[o[3]].sp \in ScanSpellings
                ELSE /\ o[2] <= Len(node.attrs)
                     /\ o[3] <= Len(node.attrs[o[2]].value)
                     /\ node.attrs[o[2]].value[o[3]].sp \in ScanSpellings
    IN  {WithSpelling(tpl, o[1], o[2], o[3], sp) :
            o \in {x \in InText \cup InAttr : IsToken(x)}, sp \in ScanSpellings}

\* C24: the scanner of the reconciler and of Group Inference extracts the
\* same key from {{key}}, {{ key }} and %7B%7Bkey%7D%7D: replacing one
\* spelling by another at the same position changes neither the set of
\* found keys nor the reconciled State.
C24_SpellingsAgree ==
    /\ last.op = "Reconcile" =>
          \A v \in Respelled(last.res.scanned) :
              /\ ScanHtml(v) = last.res.found
              /\ ReconcileWith(ScanHtml(v), last.state).state = state
    /\ AfterInference =>
          \A v \in Respelled(Scanned) :
              /\ ScanNodes(v) = [i \in 1..Len(FinalOrderedKeys(Scanned.body)) |->
                                    FinalOrderedKeys(Scanned.body)[i].key]
              /\ scanGroups(v).fieldGroups = fieldGroups

\* a pass has scanned a Template that holds the three spellings and has
\* changed the State
C24_Witness ==
    /\ last.op = "Reconcile"
    /\ state # last.state
    /\ \A sp \in ScanSpellings :
          \E i \in 1..Len(InnerTokens(last.res.scanned.body, <<>>)) :
              InnerTokens(last.res.scanned.body, <<>>)[i].sp = sp
    /\ Cardinality(Respelled(last.res.scanned)) > 3

----------------------------------------------------------------------------
(* Properties of the Theme Rewriter *)

AfterTheme == last.op = "ThemeUpdate"
\* the characters that end a token of the markup
TokenSeparators == WhiteSpace \cup {"\"", "'", ":", ";"}
IsSeparator(item) == IsMark(item) \/ item.c \in TokenSeparators

RECURSIVE Masked(_, _, _)
\* the markup s from position i on, with one item in place of every token
\* that is one of words, case apart
Masked(s, i, words) ==
    IF i > Len(s) THEN <<>>
    ELSE IF IsSeparator(s[i]) THEN <<s[i]>> \o Masked(s, i + 1, words)
    ELSE LET ends == {k \in (i + 1)..Len(s) : IsSeparator(s[k])}
             e == IF ends = {} THEN Len(s) + 1
                  ELSE CHOOSE k \in ends : \A n \in ends : k <= n
             run == CharsOf(SubSeq(s, i, e - 1))
         IN  (IF LowerCase(run) \in words THEN <<Mark("token", "", <<>>)>>
              ELSE SubSeq(s, i, e - 1))
             \o Masked(s, e, words)

\* what the rewrite writes in place of oldVal
NewToken(oldVal, newVal) ==
    IF isTailwind(oldVal) THEN Replacement(oldVal, newVal) ELSE newVal

\* C25: a theme rewrite of a utility-class token or of a raw color token
\* changes only whole-token occurrences: it never rewrites bg-blue-600
\* inside my-bg-blue-600, or a color inside a longer color.
C25_WholeTokensOnly ==
    (AfterTheme /\ last.key[1] \notin GOOGLE_FONTS) =>
        LET words == {LowerCase(last.key[1]),
                      LowerCase(NewToken(last.key[1], last.key[2]))}
        IN  Masked(RawHTML(html), 1, words) = Masked(RawHTML(last.html), 1, words)

bgRed == <<"b", "g", "-", "[">> \o cRed \o <<"]">>

\* C26: a theme rewrite bg-blue-600 -> #ff0000 on a Template with
\* class="bg-blue-600" and the text bg-blue-600-ish turns the class into
\* bg-[#ff0000] and leaves the text bg-blue-600-ish unchanged.
C26_ClassNotText ==
    (AfterTheme /\ last.key = <<cBgBlue600, cRed>>) =>
        \A p \in SeqToSet(Walk(last.html.body)) :
            LET old == NodeAt(last.html.body, p)
                new == NodeAt(html.body, p)
            IN  /\ Walk(html.body) = Walk(last.html.body)
                /\ old.t = "text" /\ old.text = <<Lit(tBgBlue600ish)>> => new = old
                /\ \A a \in 1..Len(old.attrs) :
                      old.attrs[a] = Attr("class", <<Lit(cBgBlue600)>>) =>
                          new.attrs[a] = Attr("class", <<Lit(bgRed)>>)

\* the rewrite was applied to a Template with the class and the text
C26_Witness ==
    /\ AfterTheme
    /\ last.key = <<cBgBlue600, cRed>>
    /\ \E p \in SeqToSet(Walk(last.html.body)) :
          /\ NodeAt(last.html.body, p).attrs = <<Attr("class", <<Lit(cBgBlue600)>>)>>
          /\ NodeAt(last.html.body, Append(p, 1)).text = <<Lit(tBgBlue600ish)>>
          /\ NodeAt(html.body, p).attrs = <<Attr("class", <<Lit(bgRed)>>)>>

----------------------------------------------------------------------------
(* Properties of keys that leave the Template and come back *)

AfterReconcile == last.op = "Reconcile"
FoundSet == SeqToSet(last.res.found)

\* C27: with the keys a and b of the Template at their defaults, the pass
\* after a is removed from the Template deletes a from State, and the pass
\* after a is added again gives State[a] = [a]; State[b] stays the same.
C27_RoundTrip ==
    AfterReconcile =>
        /\ ( /\ FoundSet = {kB}
             /\ SeqToSet(last.state) = {Entry(kA, DefaultValue(kA)),
                                        Entry(kB, DefaultValue(kB))} )
           => state = <<Entry(kB, DefaultValue(kB))>>
        /\ ( /\ FoundSet = {kA, kB}
             /\ last.state = <<Entry(kB, DefaultValue(kB))>> )
           => /\ KeySet(state) = {kA, kB}
              /\ Get(state, kA) = DefaultValue(kA)
              /\ Get(state, kB) = DefaultValue(kB)

\* the second pass of the round trip: a is back, after b
C27_Witness ==
    /\ AfterReconcile
    /\ FoundSet = {kA, kB}
    /\ last.state = <<Entry(kB, DefaultValue(kB))>>
    /\ state = <<Entry(kB, DefaultValue(kB)), Entry(kA, DefaultValue(kA))>>

\* no key of the one set is a substring of a key of the other
NoSubstring(keysA, keysB) ==
    \A x \in keysA, y \in keysB : ~Includes(x, y) /\ ~Includes(y, x)
\* the pass saw two added keys and two removed keys, both customized
TwoAndTwo ==
    /\ AfterReconcile
    /\ Len(last.res.added) = 2
    /\ Len(last.res.removed) = 2
    /\ \A i \in 1..2 : IsCustom(last.state, last.res.removed[i])
    /\ NoSubstring(SeqToSet(last.res.added), SeqToSet(last.res.removed))

\* C28: when one pass sees two added keys and two removed customized keys
\* with no substring relation, nothing migrates: both added keys get their
\* default value and both removed keys stay in State with their values.
C28_NoMigration ==
    TwoAndTwo =>
        /\ last.res.moves = <<>>
        /\ \A i \in 1..2 :
              /\ Get(state, last.res.added[i]) = DefaultValue(last.res.added[i])
              /\ Has(state, last.res.removed[i])
              /\ Get(state, last.res.removed[i]) = Get(last.state, last.res.removed[i])

C28_Witness ==
    /\ TwoAndTwo
    /\ Len(state) = 4
    /\ state # last.state

----------------------------------------------------------------------------
(* Properties of the form *)

\* C30: Field Groups depend on the Template only: a form edit of State
\* neither reschedules Group Inference nor changes Field Groups or the
\* repeatable keys, and it leaves the Template and the history unchanged.
C30_FormEditKeepsGroups ==
    [][ last'.op = "FormChange" =>
          /\ groupTimers' = groupTimers
          /\ fieldGroups' = fieldGroups
          /\ repeatableKeys' = repeatableKeys
          /\ html' = html
          /\ history' = history
          /\ historyIndex' = historyIndex ]_vars

\* a form edit made with groups inferred and no inference pending
C30_Witness ==
    /\ last.op = "FormChange"
    /\ state # last.state
    /\ Len(fieldGroups) > 1
    /\ repeatableKeys # {}
    /\ groupTimers = <<>>

----------------------------------------------------------------------------
(* Properties of the clone *)

\* the keys written anywhere in the subtree of the node at path, its own
\* attributes included
SubtreeKeys(root, path) ==
    SeqToSet(KeysOfTokens(OwnTokens(NodeAt(root, path)) \o InnerTokens(root, path),
                          ScanSpellings))

DuplicatedAnchor == AnchorOf(last.html, last.key)[1]
NextSibling(path) == Append(ParentPath(path), LastIndex(path) + 1)

\* C31: after a successful Duplicate(key) the original anchor is unchanged
\* and in its place, its next sibling is the clone, an element of the same
\* tag that holds none of the keys of the original anchor, and the focus
\* key is the new key of the first key of the anchor.
C31_CloneAfterAnchor ==
    Duplicated =>
        /\ NodeAt(html.body, DuplicatedAnchor) = NodeAt(last.html.body, DuplicatedAnchor)
        /\ Len(NodeAt(html.body, ParentPath(DuplicatedAnchor)).kids)
             = Len(NodeAt(last.html.body, ParentPath(DuplicatedAnchor)).kids) + 1
        /\ NodeAt(html.body, NextSibling(DuplicatedAnchor)).tag
             = NodeAt(last.html.body, DuplicatedAnchor).tag
        /\ SubtreeKeys(html.body, NextSibling(DuplicatedAnchor))
             \cap SubtreeKeys(last.html.body, DuplicatedAnchor) = {}
        /\ focusKey = last.res.map[1].v

----------------------------------------------------------------------------
(* Properties of the page font *)

\* the <style> elements with id="site-font" anywhere in the Template
SiteFontBlocks(tpl) ==
    LET IsBlock(n) == /\ n.t = "elem" /\ n.tag = "STYLE"
                      /\ \E i \in 1..Len(n.attrs) :
                            /\ n.attrs[i].name = "id"
                            /\ CharsOf(RenderTokens(n.attrs[i].value)) = siteFontId
    IN  Cardinality({i \in 1..Len(tpl.head) : IsBlock(tpl.head[i])})
        + Cardinality({p \in SeqToSet(Walk(tpl.body)) : IsBlock(NodeAt(tpl.body, p))})

\* C39: after a page-font update the Template holds at most one site-font
\* block, and none when the font was empty; the same font applied twice in
\* a row leaves the Template unchanged the second time.
C39_OneSiteFont ==
    [][ /\ last'.op = "PageFontUpdate" =>
              /\ SiteFontBlocks(html') <= 1
              /\ last'.key = <<>> => SiteFontBlocks(html') = 0
        /\ ( /\ last.op = "PageFontUpdate"
             /\ last'.op = "PageFontUpdate"
             /\ last'.key = last.key ) => html' = html
      ]_vars

\* a font was applied to a Template that held two site-font blocks, and
\* one block is left
C39_Witness ==
    /\ last.op = "PageFontUpdate"
    /\ last.key = fOpenSans
    /\ SiteFontBlocks(last.html) = 2
    /\ SiteFontBlocks(html) = 1
    /\ html.head = <<SiteFont(fOpenSans)>>

----------------------------------------------------------------------------
(* Properties of the cursor of the history log *)

\* the handlers that pass a new Template to setHtml
TemplateChanges == {"CodeChange", "Duplicate", "Delete", "ThemeUpdate", "ToastUndo"}

\* C32: in every reachable state the cursor is an index of the history log
\* and the Template is the entry at the cursor.
C32_CursorInLog ==
    /\ historyIndex \in 0..(Len(history) - 1)
    /\ html = history[historyIndex + 1]

\* redo moved the cursor to the last entry of a log that holds a Template
\* of the code editor and a Template made by one of the other handlers
C32_Witness ==
    /\ last.op = "Redo"
    /\ historyIndex = Len(history) - 1
    /\ \E i \in 1..Len(history) : history[i] = TOnlyB
    /\ \E i \in 1..Len(history) : history[i] \notin CursorEdits

\* C33: a handler that changes the Template while the cursor is not on the
\* last entry leaves the log as its entries up to the cursor followed by the
\* new Template; after any change of the Template by a handler the cursor
\* is on the last entry, so that redo is not available; a handler that
\* yields the current Template leaves the log and the cursor as they are.
C33_RedoTailDropped ==
    [][ last'.op \in TemplateChanges =>
          /\ (html' # html /\ historyIndex < Len(history) - 1) =>
                history' = Append(SubSeq(history, 1, historyIndex + 1), html')
          /\ html' # html => historyIndex' = Len(history') - 1
          /\ html' = html => (history' = history /\ historyIndex' = historyIndex)
      ]_vars

----------------------------------------------------------------------------
(* Properties of a repeated pass *)

\* C34: a second reconciliation pass over the Template just scanned, made on
\* the State the first pass left, changes nothing in State.
C34_SecondPassIdle ==
    last.op = "Reconcile" =>
        ReconcilePass(last.res.scanned, state).state = state

\* a pass migrated a value, added a default and left a State that differs
\* from the one it started from
C34_Witness ==
    /\ last.op = "Reconcile"
    /\ state # last.state
    /\ last.res.moves # <<>>
    /\ Len(last.res.added) > 1

----------------------------------------------------------------------------
(* Properties of the groups as a partition *)

\* the places <<g, i>> of the Field Groups that hold key
PlacesOf(key) ==
    {<<g, i>> \in (1..Len(fieldGroups)) \X (1..Len(FoundKeys(Scanned))) :
        i <= Len(fieldGroups[g]) /\ fieldGroups[g][i] = key}

\* C35: after Group Inference every key of the scanned Template is at
\* exactly one place of exactly one Field Group, no group is empty and the
\* groups hold no other key.
C35_GroupsPartition ==
    AfterInference =>
        /\ \A key \in SeqToSet(FoundKeys(Scanned)) : Cardinality(PlacesOf(key)) = 1
        /\ \A g \in 1..Len(fieldGroups) :
              /\ fieldGroups[g] # <<>>
              /\ SeqToSet(fieldGroups[g]) \subseteq SeqToSet(FoundKeys(Scanned))

\* the groups of the Template that holds the key a under two anchors: a is
\* in the group of the first anchor only
C35_Witness ==
    /\ AfterInference
    /\ Scanned = TTwice
    /\ fieldGroups = <<(<<kA, kB>>), (<<kTitle>>)>>

----------------------------------------------------------------------------
(* Properties of the lookup of repeatable keys *)

\* the keys Group Inference reports as repeatable for the Template tpl
ReportedRepeatable(tpl) == scanGroups(tpl).repeatableKeys

\* C36: the lookup of Swap and of Duplicate finds a node for every key that
\* Group Inference reports as repeatable for the Template they run on.
C36_RepeatableLocated ==
    /\ last.op = "Swap" =>
          \A i \in 1..2 :
              last.key[i] \in ReportedRepeatable(last.html)
                  => findElementWithKey(last.html.body, last.key[i]) # <<>>
    /\ last.op = "Duplicate" =>
          ( last.key \in ReportedRepeatable(last.html)
                => last.res.outcome # "notfound" )

----------------------------------------------------------------------------
(* Properties of Delete and the pass that follows it *)

\* C37: Delete(key) leaves a Template that holds no placeholder for key, in
\* any spelling, and when the reconciliation pass is the step that follows
\* the Delete, the Template still holds none and State holds no entry for
\* key.
C37_DeletedKeyGone ==
    [][ /\ last'.op = "Delete" => last'.key \notin SeqToSet(FoundKeys(html'))
        /\ (last.op = "Delete" /\ last'.op = "Reconcile") =>
              /\ last.key \notin SeqToSet(FoundKeys(html'))
              /\ ~Has(state', last.key)
      ]_vars

----------------------------------------------------------------------------
(* Properties of Swap as an exchange *)

\* seq with the elements at positions a and b exchanged
Exchanged(seq, a, b) ==
    [i \in 1..Len(seq) |-> IF i = a THEN seq[b] ELSE IF i = b THEN seq[a] ELSE seq[i]]

\* C38: a successful Swap(keyA, keyB) leaves the element children of the
\* common parent with the two anchors exchanged and every other child at
\* its index, and the same Swap run on the result gives the Template the
\* first Swap started from.
C38_SwapExchanges ==
    SwapApplies =>
        /\ ChildrenAfter = Exchanged(ChildrenBefore, Pos(ChildrenBefore, SwapAnchorA),
                                     Pos(ChildrenBefore, SwapAnchorB))
        /\ SwapResult(html, last.key[1], last.key[2]).html = last.html

----------------------------------------------------------------------------
(* Properties of the substitution of encoded placeholders *)

\* the Template with every placeholder of key written {{key}}
PlainSpelled(tpl, key) ==
    [tpl EXCEPT !.body = MapTokens(tpl.body, [op |-> "rename", old |-> key, new |-> key])]

\* C40: for every key of State the substitution pass gives the markup it
\* gives for the Template that spells the placeholders of that key {{key}}:
\* an occurrence written %7B%7Bkey%7D%7D is replaced by the value too.
C40_EncodedSubstituted ==
    \A k \in KeySet(state) :
        getProcessedHtml(html, state) = getProcessedHtml(PlainSpelled(html, k), state)

====
